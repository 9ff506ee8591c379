----------------------------- MODULE InitWriter -----------------------------
(***************************************************************************)
(* How the gateway reads the answer to an initialize (initWriter of        *)
(* internal/gateway/gateway.go).  The answer comes in chunks, cut wherever *)
(* the network likes.  A stream of events is parsed as it comes, up to the *)
(* first event that answers the request; anything else is held until the   *)
(* listener has returned.                                                  *)
(*                                                                         *)
(* A stream is made of line feeds, carriage returns and fields: data that  *)
(* answers the request with a result or with an error, and comments.  Two  *)
(* fields in one line, or two lines of data in one event, are data that    *)
(* answers nothing.                                                        *)
(***************************************************************************)
EXTENDS Integers, SequencesExt

CONSTANTS LF, CR, Result, Error, Comment,
  BodyLimit,    \* bodyLimit, in fields and terminators
  MaxLength     \* bound on what is written

VARIABLES
  parsing,      \* mode: "sse" or "buffer"
  held,
  parser,       \* [pos, lineStart, skipLF]: where the event and the line begin
  verdict,      \* subset of {"committed", "rejected"}
  overflow,
  session       \* whether the client is given its session; "open" until the
                \* listener has returned

Bytes == {LF, CR, Result, Error, Comment}
Terminators == {LF, CR}

-----------------------------------------------------------------------------
\* CRLF and CR become LF.
Normalized(s) ==
  LET ends(i) == s[i] # LF \/ i = 1 \/ s[i - 1] # CR
      kept == SetToSortSeq({i \in DOMAIN s : ends(i)}, <)
  IN  [k \in DOMAIN kept |-> IF s[kept[k]] = CR THEN LF ELSE s[kept[k]]]

Lines(s) ==
  FoldLeft(LAMBDA ls, b : IF b = LF THEN Append(ls, <<>>)
                          ELSE Append(Front(ls), Append(Last(ls), b)),
           << <<>> >>, Normalized(s))

\* processSSEEvent: what an event answers; a line that begins as a comment is
\* one whatever follows.
processSSEEvent(lines) ==
  LET data == SelectSeq(lines, LAMBDA l : l # <<>> /\ Head(l) # Comment)
  IN  IF data = << <<Result>> >> THEN "result"
      ELSE IF data = << <<Error>> >> THEN "error" ELSE "nothing"

\* Fault: a CR that ends a chunk is not remembered.
SkipNothing(p, isLast) == [p EXCEPT !.skipLF = FALSE]

\* An LF that begins the next chunk is the rest of a CRLF.
SkipLF(p, isLast) == [p EXCEPT !.skipLF = isLast]

(***************************************************************************)
(* parseSSEEvents, one byte; next is the byte to look at, for CRLF is      *)
(* taken at once.                                                          *)
(***************************************************************************)
Byte(s, p, i) ==
  LET length == IF s[i] = CR /\ i < Len(s) /\ s[i + 1] = LF THEN 2 ELSE 1
      v == SkipLF([p EXCEPT !.lineStart = i + length, !.next = i + length], s[i] = CR /\ i = Len(s))
      answer == processSSEEvent(Lines(SubSeq(s, p.pos, p.lineStart - 1)))
  IN  IF i < p.next \/ "committed" \in p.verdict THEN p
      ELSE IF p.skipLF /\ s[i] = LF
        THEN [p EXCEPT !.skipLF = FALSE, !.next = i + 1,
                       !.pos = IF @ = i THEN i + 1 ELSE @,
                       !.lineStart = IF @ = i THEN i + 1 ELSE @]
      ELSE IF s[i] \notin Terminators THEN [p EXCEPT !.skipLF = FALSE, !.next = i + 1]
      ELSE IF p.lineStart # i THEN v
      ELSE IF p.lineStart > p.pos /\ answer = "result" THEN [p EXCEPT !.verdict = @ \cup {"committed"}]
      ELSE [v EXCEPT !.pos = i + length,
                     !.verdict = IF p.lineStart > p.pos /\ answer = "error"
                                   THEN @ \cup {"rejected"} ELSE @]

parseSSEEvents(s) ==
  FoldLeftDomain(LAMBDA p, i : Byte(s, p, i),
    [pos |-> parser.pos, lineStart |-> parser.lineStart, skipLF |-> parser.skipLF,
     next |-> Len(held) + 1, verdict |-> verdict], s)

-----------------------------------------------------------------------------
\* The upstream's answer is not read any further once there is a verdict.
Write(p) ==
  LET s == held \o p
      w == parseSSEEvents(s)
  IN  /\ session = "open" /\ verdict = {}
      /\ IF Len(s) > BodyLimit
           THEN overflow' = TRUE /\ verdict' = {"rejected"} /\ UNCHANGED <<held, parser>>
         ELSE /\ held' = s /\ UNCHANGED overflow
              /\ IF parsing = "buffer" THEN UNCHANGED <<parser, verdict>>
                 ELSE /\ parser' = [pos |-> w.pos, lineStart |-> w.lineStart, skipLF |-> w.skipLF]
                      /\ verdict' = w.verdict
      /\ UNCHANGED <<parsing, session>>

\* validateInitializeResponse: the body is one answer, and white space.
OneResult == SelectSeq(held, LAMBDA b : b \notin Terminators) = <<Result>>

\* The listener has returned: commitSSE, or finalize.
Finalize ==
  /\ session = "open"
  /\ session' = IF "committed" \in verdict \/ (parsing = "buffer" /\ ~overflow /\ OneResult)
                  THEN "given" ELSE "none"
  /\ UNCHANGED <<parsing, held, parser, verdict, overflow>>

Init ==
  /\ parsing \in {"sse", "buffer"}
  /\ held = <<>> /\ parser = [pos |-> 1, lineStart |-> 1, skipLF |-> FALSE]
  /\ verdict = {} /\ overflow = FALSE /\ session = "open"

Next ==
  \/ \E n \in 1..(MaxLength - Len(held)) : \E p \in [1..n -> Bytes] : Write(p)
  \/ Finalize

-----------------------------------------------------------------------------
\* The answers of a stream, in order: events are groups of lines that a blank
\* line ends.
Answers(s) ==
  LET ls == Front(Lines(s))
      blank == {k \in DOMAIN ls : ls[k] = <<>>}
      from(k) == 1 + Max({0} \cup {j \in blank : j < k})
      answers == [k \in 1..Len(ls) |-> IF k \in blank THEN processSSEEvent(SubSeq(ls, from(k), k - 1))
                                       ELSE "nothing"]
  IN  SelectSeq(answers, LAMBDA a : a # "nothing")

(***************************************************************************)
(* However the stream is cut into chunks, within a CRLF or between the two *)
(* ends of an event, the client is given its session if the first answer   *)
(* in all that came is a result, and only then; but when an error and a    *)
(* later result come in one chunk the result counts.                       *)
(***************************************************************************)
CutsDoNotMatter ==
  session # "open" /\ parsing = "sse" =>
    LET as == Answers(held) IN
    IF as = <<>> \/ overflow THEN session = "none"
    ELSE IF as[1] = "result" THEN session = "given"
    ELSE session = "given" => "result" \in Range(as)

=============================================================================
