------------------------------- MODULE Chunks -------------------------------
(***************************************************************************)
(* How a script is cut into chunks (parser/flow.go and parser/parser.go,   *)
(* driven line by line by AccumulateScript of internal/repl/flow.go).  A   *)
(* chunk is shell, Starlark, or a brace form: if ... { } else { } and      *)
(* try { } catch { }.  Whether a line ends a chunk is decided by scanning  *)
(* what was read so far, and a block that is cut too early would run its   *)
(* body lines as commands of their own.                                    *)
(*                                                                         *)
(* A source text is a sequence of tokens: words, one of each mark the      *)
(* scanners look at, " " for a blank and "NL" for a line end.  The shell's *)
(* own parser is external and seen as what it says of an unfinished text.  *)
(***************************************************************************)
EXTENDS Naturals, Sequences, FiniteSets

CONSTANTS
    ScriptLines,   \* the lines scripts are made of, each a sequence of tokens
    Closers,       \* what a user may type to finish a chunk
    MaxChunkLines, \* lines in one chunk
    MaxScript      \* bound: lines of a script

ASSUME ChunksAssumption == MaxChunkLines \in Nat \ {0} /\ MaxScript \in Nat

VARIABLES
    pending, \* the chunk being collected
    open,    \* starlarkOpen: a Starlark chunk takes further lines
    ignore,  \* are the errors of the chunk ignored?
    over,    \* the script ended, or its reader gave up
    done,    \* the chunks that were run, each with its kind and whether it was prefixed
    script   \* history: the lines read that are not skipped, without their prefix

chunkVars == <<pending, open, ignore, over, done, script>>

Words  == {"if", "try", "catch", "else", "then", "fi", "def", "exit", "w"}
Blanks == {" ", "NL"}

ChunksInit ==
    /\ pending = << >> /\ open = FALSE /\ ignore = FALSE /\ over = FALSE /\ done = << >> /\ script = << >>

-----------------------------------------------------------------------------
(* Scanning.                                                               *)

\* What a token does to the state of a scan: code, comment, quotes, escapes.
Lex(q, t) ==
    CASE q = "comment" -> IF t = "NL" THEN "code" ELSE "comment"
      [] q = "sq" -> IF t = "'" THEN "code" ELSE "sq"
      [] q = "dq" -> IF t = "\"" THEN "code" ELSE IF t = "\\" THEN "dqesc" ELSE "dq"
      [] q = "dqesc" -> "dq"
      [] q = "esc" -> "code"
      [] OTHER -> CASE t = "\\" -> "esc" [] t = "'" -> "sq" [] t = "\"" -> "dq"
                    [] t = "#" -> "comment" [] OTHER -> "code"

\* sawCode: the token is something to run, not blank, comment or quote mark.
Shows(q, t) ==
    CASE q = "comment" -> FALSE
      [] q = "esc" \/ q = "dqesc" -> t # "NL"
      [] q = "sq" -> t \notin Blanks \cup {"'"}
      [] q = "dq" -> t \notin Blanks \cup {"\"", "\\"}
      [] OTHER -> t \notin Blanks \cup {"\\", "'", "\"", "#"}

\* Mutant: the block scanner does not know comments.
ScanBlock_NoComment(src, open_) ==
    LET RECURSIVE Scan(_, _, _, _)
        Scan(i, q, depth, saw) ==
            IF i > Len(src) THEN [next |-> Len(src) + 1, saw |-> saw, incomplete |-> TRUE]
            ELSE LET t == src[i] IN
                 IF q = "code" /\ t = "}" /\ depth = 1
                 THEN [next |-> i + 1, saw |-> saw, incomplete |-> FALSE]
                 ELSE IF q = "code" /\ t \in {"{", "}"}
                 THEN Scan(i + 1, q, IF t = "{" THEN depth + 1 ELSE depth - 1, TRUE)
                 ELSE Scan(i + 1, IF t = "#" THEN q ELSE Lex(q, t), depth, saw \/ Shows(q, t))
    IN  Scan(open_ + 1, "code", 1, FALSE)

\* scanBlock from the brace at open_: where the body ends, and whether it has code.
ScanBlock(src, open_) ==
    LET RECURSIVE Scan(_, _, _, _)
        Scan(i, q, depth, saw) ==
            IF i > Len(src) THEN [next |-> Len(src) + 1, saw |-> saw, incomplete |-> TRUE]
            ELSE LET t == src[i] IN
                 IF q = "code" /\ t = "}" /\ depth = 1
                 THEN [next |-> i + 1, saw |-> saw, incomplete |-> FALSE]
                 ELSE IF q = "code" /\ t \in {"{", "}"}
                 THEN Scan(i + 1, q, IF t = "{" THEN depth + 1 ELSE depth - 1, TRUE)
                 ELSE Scan(i + 1, Lex(q, t), depth, saw \/ Shows(q, t))
    IN  Scan(open_ + 1, "code", 1, FALSE)

\* The first index from i on that is no blank and in no comment.
SkipWSComments(src, i) ==
    LET RECURSIVE Skip(_, _)
        Skip(j, comment) ==
            IF j > Len(src) THEN j
            ELSE IF comment THEN Skip(j + 1, src[j] # "NL")
            ELSE IF src[j] \in Blanks THEN Skip(j + 1, FALSE)
            ELSE IF src[j] = "#" THEN Skip(j + 1, TRUE) ELSE j
    IN  Skip(i, FALSE)

ColonFollows(src, i) ==
    \E j \in i..Len(src) : src[j] = ":" /\ \A k \in i..(j - 1) : src[k] = " "

\* readIdent: the word at i; words that touch are one other word.
WordAt(src, i) ==
    IF i > Len(src) \/ src[i] \notin Words THEN ""
    ELSE IF i < Len(src) /\ src[i + 1] \in Words THEN "other" ELSE src[i]

\* scanCondition: where the condition of an if ends and what ended it. The words
\* then and fi, and a colon, end it as no brace form; so does a brace whose block
\* is followed by a colon (a Starlark literal).
ScanCondition(src, from) ==
    LET Posix(word) == word \in {<<"then">>, <<"fi">>}
        RECURSIVE Scan(_, _, _, _)
        Scan(i, q, depth, word) ==
            IF i > Len(src) THEN [stop |-> IF Posix(word) THEN "posix" ELSE "eof", at |-> i]
            ELSE LET t == src[i] IN
            IF q # "code" THEN Scan(i + 1, Lex(q, t), depth, word)
            ELSE IF depth > 0
            THEN Scan(i + 1, IF t = "#" THEN q ELSE Lex(q, t),
                      CASE t \in {"{", "("} -> depth + 1 [] t \in {"}", ")"} -> depth - 1
                        [] OTHER -> depth, word)
            ELSE IF t \in Words \cup {"}", "=", "!"} \/ (t = "$" /\ ~(i < Len(src) /\ src[i + 1] = "{"))
            THEN Scan(i + 1, q, 0, Append(word, t))
            ELSE IF Posix(word) THEN [stop |-> "posix", at |-> i]
            ELSE IF t = ":" THEN [stop |-> "colon", at |-> i]
            ELSE IF t = "{"
            THEN LET b == ScanBlock(src, i)
                 IN  [stop |-> IF ~b.incomplete /\ ColonFollows(src, b.next) THEN "colon" ELSE "brace",
                      at |-> i]
            ELSE IF t = "$" THEN Scan(i + 2, q, 1, << >>)
            ELSE IF t = "(" THEN Scan(i + 1, q, 1, << >>)
            ELSE Scan(i + 1, Lex(q, t), 0, << >>)
    IN  Scan(from, "code", 0, << >>)

-----------------------------------------------------------------------------
(* Lines.                                                                  *)

FirstLine(src) ==
    LET ends == {i \in 1..Len(src) : src[i] = "NL"}
    IN  IF ends = {} THEN src
        ELSE SubSeq(src, 1, (CHOOSE i \in ends : \A j \in ends : i <= j) - 1)

\* The states a scan goes through: before each token, and at the end.
LexStates(src) ==
    LET f[i \in 1..(Len(src) + 1)] == IF i = 1 THEN "code" ELSE Lex(f[i - 1], src[i - 1])
    IN  f

StripTrailingComment(line) ==
    LET f == LexStates(line)
        marks == {i \in 1..Len(line) : line[i] = "#" /\ f[i] = "code"}
    IN  IF marks = {} THEN line
        ELSE SubSeq(line, 1, (CHOOSE i \in marks : \A j \in marks : i <= j) - 1)

RECURSIVE Trim(_)
Trim(s) ==
    IF s # << >> /\ s[1] \in Blanks THEN Trim(Tail(s))
    ELSE IF s # << >> /\ s[Len(s)] \in Blanks THEN Trim(SubSeq(s, 1, Len(s) - 1)) ELSE s

FirstLineEndsWithColon(src) ==
    LET line == Trim(StripTrailingComment(FirstLine(src))) IN line # << >> /\ line[Len(line)] = ":"

\* How deep the brackets of code are at the end of a text, closers that close
\* nothing left out.
Depth(src, openers, closers) ==
    LET f == LexStates(src)
        d[i \in 1..(Len(src) + 1)] ==
            IF i = 1 THEN 0
            ELSE IF f[i - 1] = "code" /\ src[i - 1] \in openers THEN d[i - 1] + 1
            ELSE IF f[i - 1] = "code" /\ src[i - 1] \in closers /\ d[i - 1] > 0 THEN d[i - 1] - 1
            ELSE d[i - 1]
    IN  d[Len(src) + 1]

FirstLineColonOutsideBrackets(src) ==
    LET line == StripTrailingComment(FirstLine(src))
    IN  /\ Depth(line, {"(", "{"}, {")", "}"}) = 0
        /\ LexStates(line)[Len(line) + 1] \notin {"sq", "dq", "dqesc"}

\* The scan of OpensBlock: Starlark's strings, which end with their line, and no
\* escapes outside of them.
StarLex(q, t) ==
    CASE q = "comment" -> IF t = "NL" THEN "code" ELSE "comment"
      [] q = "sq" -> CASE t = "\\" -> "sqesc" [] t \in {"'", "NL"} -> "code" [] OTHER -> "sq"
      [] q = "dq" -> CASE t = "\\" -> "dqesc" [] t \in {"\"", "NL"} -> "code" [] OTHER -> "dq"
      [] q = "sqesc" -> "sq"
      [] q = "dqesc" -> "dq"
      [] OTHER -> CASE t = "'" -> "sq" [] t = "\"" -> "dq" [] t = "#" -> "comment" [] OTHER -> "code"

\* A bracket or a string left open, or a last line that ends in a colon or \.
OpensBlock(src) ==
    LET text == Trim(src)
        f[i \in 1..(Len(src) + 1)] == IF i = 1 THEN "code" ELSE StarLex(f[i - 1], src[i - 1])
        CodeCount(marks) == Cardinality({i \in 1..Len(src) : f[i] = "code" /\ src[i] \in marks})
    IN  \/ CodeCount({"(", "{"}) > CodeCount({")", "}"})
        \/ f[Len(src) + 1] \in {"sq", "dq", "sqesc", "dqesc"}
        \/ text # << >> /\ text[Len(text)] \in {":", "\\"}

-----------------------------------------------------------------------------
(* Classification.                                                         *)

Result(kind, bodies) == [kind |-> kind, bodies |-> bodies]

\* The second block of a form, after the keyword that must stand there.
SecondBlock(src, from, keyword, first) ==
    LET j == SkipWSComments(src, from) IN
    IF WordAt(src, j) # keyword THEN Result("syntax", << >>)
    ELSE LET k == SkipWSComments(src, j + 1) IN
         IF k > Len(src) THEN Result("incomplete", << >>)
         ELSE IF src[k] # "{" THEN Result("syntax", << >>)
         ELSE LET b == ScanBlock(src, k) IN
              IF b.incomplete THEN Result("incomplete", << >>)
              ELSE IF ~b.saw \/ SkipWSComments(src, b.next) <= Len(src) THEN Result("syntax", << >>)
              ELSE Result("ready", Append(first, SubSeq(src, k + 1, b.next - 2)))

ClassifyIf(src, from) ==
    LET cond == ScanCondition(src, from)
        text == SubSeq(src, from, cond.at - 1)
        f == LexStates(text)
    IN  IF \/ FirstLineEndsWithColon(src) /\ FirstLineColonOutsideBrackets(src)
           \/ cond.stop # "brace"
        THEN Result("not", << >>)
        ELSE IF \A i \in 1..Len(text) : text[i] \in Blanks \/ f[i] = "comment" \/ (f[i] = "code" /\ text[i] = "#")
        THEN Result("syntax", << >>)
        ELSE LET b == ScanBlock(src, cond.at)
                 first == <<SubSeq(src, cond.at + 1, b.next - 2)>>
             IN  IF b.incomplete THEN Result("incomplete", << >>)
                 ELSE IF ~b.saw THEN Result("syntax", << >>)
                 ELSE IF SkipWSComments(src, b.next) > Len(src) THEN Result("ready", first)
                 ELSE SecondBlock(src, b.next, "else", first)

ClassifyTry(src, from) ==
    LET j == SkipWSComments(src, from) IN
    IF j > Len(src) \/ src[j] # "{" THEN Result("not", << >>)
    ELSE LET b == ScanBlock(src, j) IN
         IF b.incomplete THEN Result("incomplete", << >>)
         ELSE IF ~b.saw THEN Result("syntax", << >>)
         ELSE IF SkipWSComments(src, b.next) > Len(src) THEN Result("incomplete", << >>)
         ELSE SecondBlock(src, b.next, "catch", <<SubSeq(src, j + 1, b.next - 2)>>)

ClassifyFlow(src) ==
    LET i == SkipWSComments(src, 1)
        lines == Len(SelectSeq(src, LAMBDA t : t = "NL")) + 1
    IN  CASE lines > MaxChunkLines -> Result("syntax", << >>)
          [] lines <= MaxChunkLines /\ WordAt(src, i) = "try" -> ClassifyTry(src, i + 1)
          [] lines <= MaxChunkLines /\ WordAt(src, i) = "if" -> ClassifyIf(src, i + 1)
          [] OTHER -> Result("not", << >>)

IfKeyword(text) == Len(text) >= 2 /\ text[1] = "if" /\ text[2] \in {"{", " "}

StarlarkIf(text) == FirstLineEndsWithColon(text) \/ ScanCondition(text, 2).stop = "colon"

\* DetermineMode, for the shapes the lines have: an if, a def, an assignment with
\* blanks around its sign; anything else is shell.
DetermineMode(line) ==
    LET text == Trim(line) IN
    IF IfKeyword(text)
    THEN IF ScanCondition(text, 2).stop # "posix" /\ StarlarkIf(text) THEN "starlark" ELSE "shell"
    ELSE IF Len(text) >= 2 /\ text[1] = "def" /\ text[2] = " " THEN "starlark"
    ELSE IF Len(text) >= 4 /\ text[1] \in Words /\ SubSeq(text, 2, 4) = <<" ", "=", " ">>
    THEN "starlark" ELSE "shell"

\* What the shell's parser calls incomplete: an open quote, if or group.
ShellIncomplete(src) ==
    LET f == LexStates(src)
        CodeCount(t) == Cardinality({i \in 1..Len(src) : f[i] = "code" /\ src[i] = t})
    IN  \/ f[Len(src) + 1] \in {"sq", "dq", "dqesc"}
        \/ CodeCount("if") > CodeCount("fi")
        \/ Depth(src, {"{"}, {"}"}) > 0

ClassifyChunk(src) ==
    LET flow == ClassifyFlow(src).kind  first == FirstLine(src) IN
    CASE flow = "ready" -> "flow"
      [] flow = "incomplete" -> "more"
      [] flow = "syntax" -> "syntax"
      [] OTHER ->
            IF \/ DetermineMode(first) = "starlark"
               \/ IfKeyword(Trim(first)) /\ StarlarkIf(Trim(src))
            THEN "starlark"
            ELSE IF ShellIncomplete(src) THEN "more" ELSE "shell"

-----------------------------------------------------------------------------
(* AccumulateScript.                                                       *)

Skipped(line) == Trim(line) = << >> \/ Trim(line)[1] = "#"

\* A line that belongs to the open Starlark chunk.
Continues(line) == OpensBlock(pending) \/ Trim(line) = << >> \/ line[1] = " "

\* The open Starlark chunk takes the line as it is.
Collect(line) ==
    /\ pending' = pending \o <<"NL">> \o line
    /\ script' = Append(script, line)
    /\ UNCHANGED <<open, ignore, over, done>>

\* A chunk that is run or rejected. An error ends the script, and a rejected chunk is
\* one, unless errors of this chunk are ignored.
Ran(text, kind, ignored) == [text |-> text, kind |-> kind, ignored |-> ignored]
Ends(kind, ignored) ==
    CASE ignored -> {FALSE} [] ~ignored /\ kind = "syntax" -> {TRUE} [] OTHER -> BOOLEAN

\* The first line of a chunk may have a "-" before it.
Prefixed(line) == Trim(line)[1] = "-"
Unprefixed(line) == IF Prefixed(line) THEN Trim(Tail(Trim(line))) ELSE Trim(line)

\* A line begins a chunk or is added to the one collected, which is classified.
Take(line, from, ran) ==
    IF from = << >> /\ (Skipped(line) \/ Trim(line) = <<"exit">>)
    THEN /\ over' = (Trim(line) = <<"exit">>)
         /\ pending' = << >> /\ open' = FALSE /\ ignore' = FALSE /\ done' = ran /\ UNCHANGED script
    ELSE LET text == IF from = << >> THEN Unprefixed(line) ELSE from \o <<"NL">> \o line
             ignored == IF from = << >> THEN Prefixed(line) ELSE ignore
             kind == ClassifyChunk(text)
         IN  /\ script' = Append(script, IF from = << >> THEN text ELSE line)
             /\ IF kind \in {"more", "starlark"}
                THEN /\ pending' = text /\ open' = (kind = "starlark") /\ ignore' = ignored
                     /\ over' = FALSE /\ done' = ran
                ELSE /\ pending' = << >> /\ open' = FALSE /\ ignore' = FALSE
                     /\ over' \in Ends(kind, ignored)
                     /\ done' = Append(ran, Ran(text, kind, ignored))

\* One line of the script. One that does not belong to the open Starlark chunk has
\* that one run first, which may end the script.
ReadLine(line) ==
    /\ ~over /\ Len(script) < MaxScript
    /\ IF ~open THEN Take(line, pending, done)
       ELSE IF Continues(line) THEN Collect(line)
       ELSE LET ran == Append(done, Ran(pending, "starlark", ignore)) IN
            \/ Take(line, << >>, ran)
            \/ /\ TRUE \in Ends("starlark", ignore) /\ over' = TRUE /\ done' = ran
               /\ pending' = << >> /\ open' = FALSE /\ ignore' = FALSE /\ UNCHANGED script

\* The script ends: an open Starlark chunk is run, an unfinished one is an error.
EndScript ==
    /\ ~over /\ over' = TRUE
    /\ done' = IF open THEN Append(done, Ran(pending, "starlark", ignore)) ELSE done
    /\ pending' = IF open THEN << >> ELSE pending
    /\ open' = FALSE
    /\ UNCHANGED <<ignore, script>>

ChunksNext == (\E line \in ScriptLines : ReadLine(line)) \/ EndScript

ChunksSpec == ChunksInit /\ [][ChunksNext]_chunkVars

-----------------------------------------------------------------------------
(* Properties.                                                             *)

\* The tokens of a text that are code, by one pass over the whole of it.
Braces(text) == Depth(text, {"{"}, {"}"})

\* A brace form runs whole: it has its condition and each body between braces that
\* match, and nothing of it is left over.  A form that is rejected is the last thing
\* that a script runs, unless it stands behind a "-": its error is ignored then, and
\* the lines that follow it, be they of its second block, run by themselves.
FlowsWhole ==
    \A i \in 1..Len(done) :
        LET d == done[i]  r == ClassifyFlow(d.text) IN
        /\ d.kind = "syntax" => d.ignored \/ (over /\ i = Len(done))
        /\ d.kind = "flow" =>
            /\ Braces(d.text) = 0
            /\ Len(r.bodies) = (IF \E k \in 1..Len(d.text) : WordAt(d.text, k) \in {"else", "catch"}
                                                            /\ LexStates(d.text)[k] = "code"
                                                            /\ Braces(SubSeq(d.text, 1, k - 1)) = 0
                                THEN 2 ELSE 1)
            /\ \A b \in 1..Len(r.bodies) :
                  /\ Braces(r.bodies[b]) = 0
                  /\ LexStates(r.bodies[b])[Len(r.bodies[b]) + 1] \in {"code", "comment"}

\* A Starlark chunk never ends inside of what it opened, unless the script ends
\* there: a text that closes only what it opened leaves no bracket open when it is
\* run, so no line of a value or block is taken for a command.
NothingCut ==
    \A i \in 1..Len(done) :
        LET text == done[i].text
            f[k \in 1..(Len(text) + 1)] == IF k = 1 THEN "code" ELSE StarLex(f[k - 1], text[k - 1])
            Upto(k, marks) == Cardinality({j \in 1..k : f[j] = "code" /\ text[j] \in marks})
        IN  (/\ done[i].kind = "starlark" /\ ~(over /\ i = Len(done))
             /\ \A k \in 1..Len(text) : Upto(k, {")", "}"}) <= Upto(k, {"(", "{"}))
                => Upto(Len(text), {"(", "{"}) = Upto(Len(text), {")", "}"})

\* Nothing is lost and nothing is run twice: the lines read are those of the chunks
\* that ran and of the one being collected, in order.
LinesOnce ==
    LET Lines(s) == LET RECURSIVE J(_)
                        J(k) == IF k = 0 THEN << >>
                                ELSE J(k - 1) \o (SelectSeq(s[k], LAMBDA t : t \notin Blanks))
                    IN J(Len(s))
        texts == [i \in 1..Len(done) |-> done[i].text]
    IN  Lines(script) = Lines(texts) \o SelectSeq(pending, LAMBDA t : t \notin Blanks)

\* Whoever is asked for more can end it: some way to close what is open finishes
\* the chunk or has it rejected.
CanClose ==
    (pending # << >> /\ ~open /\ ~over) =>
        \E c \in Closers : ClassifyChunk(pending \o <<"NL">> \o c) # "more"

\* How lines become chunks (ClassifyChunk, ClassifyFlow, AccumulateScript): no chunk
\* is cut, lost, repeated or left without an end.
ChunksSafety == FlowsWhole /\ NothingCut /\ LinesOnce /\ CanClose
=============================================================================
