------------------------------- MODULE Stream -------------------------------
(***************************************************************************)
(* StreamRedactor (internal/redact/stream.go): the redaction of a streamed *)
(* answer, one line of Server-Sent Events at a time.  Text is held back in *)
(* "carry" and released up to a whitespace outside a reserved tail; what is*)
(* held is flushed as a synthetic event before an event that ends a block, *)
(* before [DONE] and at the end of the body.                               *)
(*                                                                         *)
(* A character is <<v, k>>: the k-th of the Width[v] characters of the     *)
(* sensitive value v, or of the filler "x" and the space.  The detectors   *)
(* replace every value that stands complete in the text they are given by  *)
(* its token, and leave a part of a value as it is.  With auto-reveal the  *)
(* tokens then become their originals again, also those the model echoes.  *)
(*                                                                         *)
(* A block is an Anthropic content block or an OpenAI choice.  Anthropic   *)
(* (and others, not OpenAI chat) names every event on a line of its own    *)
(* before the data.  It sends its blocks one after the other and ends each *)
(* with a stop event; OpenAI interleaves its choices and marks the last    *)
(* chunk of each with finish_reason.                                       *)
(***************************************************************************)
EXTENDS Naturals, Sequences, FiniteSets, SequencesExt

CONSTANTS
    Formats,    \* of "anthropic", "openai" and "other" (Responses, Gemini, legacy)
    Blocks,     \* the blocks of an answer: 1..n, in the order Anthropic sends them
    ChoiceSet,  \* the blocks of an answer in another format than Anthropic's
    ToolBlocks, \* the Anthropic blocks of tool arguments (partial_json deltas)
    Values,     \* the sensitive values an answer may contain
    Echoes,     \* the tokens of the request it may contain
    Width,      \* value or token -> its number of characters
    Blanks,     \* value or token -> the positions of its whitespace characters
    Reveals,    \* whether answers may be, or not be, revealed
    Armored,    \* the PEM keys: their first and last characters are the markers
    Texts,      \* format -> the texts a block may have
    MinTail,    \* streamMinTail, in characters of the model
    MaxChunk    \* the longest text of one delta

Marked     == Values \cup Echoes
Characters == ({" ", "x"} \cup Marked) \X Nat

ASSUME StreamAssumption ==
    /\ Formats \subseteq {"anthropic", "openai", "other"}
    /\ Values \cap Echoes = {} /\ " " \notin Marked /\ Reveals \subseteq BOOLEAN
    /\ \A v \in Marked : Width[v] \in Nat \ {0}
    /\ Armored \subseteq Values
    /\ Blocks \subseteq Nat \ {0} /\ 1 \in Blocks   \* 1: OpenAI's choice 0
    /\ ToolBlocks \cup ChoiceSet \subseteq Blocks
    /\ \A f \in Formats : Texts[f] \subseteq Seq(Characters)
    /\ MinTail \in Nat /\ MaxChunk \in Nat

VARIABLES
    format,    \* the format of the answer, by the path of the request
    reveal,    \* whether the answer is revealed
    wire,      \* the lines of the current event that have not been read
    rest,      \* block -> the text the model has not sent
    sent,      \* block -> the text the gateway has read
    ended,     \* the blocks whose end the model has sent
    carry,     \* text held back
    tmpl,      \* flushTmpl: the block of the last text event, or None
    pending,   \* pendingEvent: event lines held until their data line
    out,       \* the lines written to the client
    over       \* the body has ended and Process has returned

vars == <<format, reveal, wire, rest, sent, ended, carry, tmpl, pending, out, over>>
path == <<format, reveal>>
model == <<path, rest, ended>>

-----------------------------------------------------------------------------
(* Text and its redaction *)

None == 0

Space   == <<" ", 1>>
Token(v) == <<"token", v>>

Original(t) == <<"original", t>>

IsBlank(ch) == ch = Space \/ (ch[1] \in Marked /\ ch[2] \in Blanks[ch[1]])

\* The value or token v stands complete in text, beginning at position i.
Stands(text, v, i) ==
    /\ i + Width[v] - 1 <= Len(text)
    /\ \A k \in 1..Width[v] : text[i + k - 1] = <<v, k>>

Whole(v) == [k \in 1..Width[v] |-> <<v, k>>]

\* What becomes of a complete value or token: a value becomes its token, and the vault
\* gives a token its original again when answers are revealed.
Becomes(v) ==
    CASE v \in Values /\ ~reveal -> <<Token(v)>>
      [] v \in Echoes /\ reveal  -> <<Original(v)>>
      [] OTHER                   -> Whole(v)

\* The detectors and the revealing: the rest of the text stays.
Redact(text) ==
    LET InValue(i, v, k) == i >= k /\ text[i] = <<v, k>> /\ Stands(text, v, i + 1 - k)
        Char(i) ==
            IF \E v \in Marked : InValue(i, v, 1) THEN Becomes(text[i][1])
            ELSE IF \E v \in Marked : \E k \in 2..Width[v] : InValue(i, v, k) THEN <<>>
            ELSE <<text[i]>>
    IN  FlattenSeq([i \in 1..Len(text) |-> Char(i)])

Occurrences(text, S) == Cardinality({i \in 1..Len(text) : text[i] \in S})

Begin == {<<v, 1>> : v \in Armored}
End   == {<<v, Width[v]>> : v \in Armored}

\* Faulty: the held text is cut anywhere before the tail.
ReleaseAnywhere(c) == IF Len(c) > MinTail THEN Len(c) - MinTail ELSE 0

\* How much of the held text feedText releases: nothing while a PEM block is open,
\* else up to the last whitespace outside the reserved tail.
Release(c) ==
    LET cuts == {i \in 1..Len(c) : i + MinTail <= Len(c) /\ IsBlank(c[i])}
    IN  IF Occurrences(c, Begin) > Occurrences(c, End) \/ cuts = {} THEN 0
        ELSE CHOOSE i \in cuts : \A j \in cuts : j <= i

-----------------------------------------------------------------------------
(* Lines.  A data line is a text delta, a tool-argument delta, the end of a  *)
(* block (for OpenAI, a delta with finish_reason), something else, or [DONE] *)

EventLine(name) == [line |-> "event", name |-> name]
BlankLine       == [line |-> "blank"]
CutLine(text)   == [line |-> "cut", text |-> text]

Data(name, block, text, ends) ==
    [line |-> "data", name |-> name, block |-> block, text |-> text, ends |-> ends]

Done == Data("done", None, <<>>, FALSE)

\* An event as it is on the wire.
Wire(data) ==
    IF format = "openai" THEN <<data, BlankLine>>
    ELSE <<EventLine(data.name), data, BlankLine>>

HasText(data) == data.name = "delta"

\* The blocks of this answer.
Used == IF format = "anthropic" THEN Blocks ELSE ChoiceSet

\* Only Anthropic text and OpenAI chat content are held back across deltas.
HeldBack(block) == \/ format = "openai"
                   \/ format = "anthropic" /\ block \notin ToolBlocks

-----------------------------------------------------------------------------
Init ==
    /\ format \in Formats /\ reveal \in Reveals
    /\ wire = <<>>
    /\ rest \in [Blocks -> Texts[format] \cup {<<>>}]
    /\ \A b \in Blocks : rest[b] = <<>> <=> b \notin Used
    /\ sent = [b \in Blocks |-> <<>>]
    /\ ended = {}
    /\ carry = <<>> /\ tmpl = None /\ pending = <<>>
    /\ out = <<>>
    /\ over = FALSE

(* The model's side of the stream *)

\* Anthropic sends the blocks one by one, the others in any order.
Open(b) ==
    /\ b \in Used \ ended
    /\ format = "anthropic" => \A a \in Blocks : a < b => a \in ended

Idle == ~over /\ wire = <<>>

SendText(b, n) ==
    /\ Idle /\ Open(b)
    /\ n \in 1..Len(rest[b])
    /\ wire' = Wire(Data("delta", b, SubSeq(rest[b], 1, n), FALSE))
    /\ rest' = [rest EXCEPT ![b] = SubSeq(@, n + 1, Len(@))]
    /\ UNCHANGED <<path, sent, ended, carry, tmpl, pending, out, over>>

\* The end of a block; an OpenAI finish chunk is a delta and may bring text along.
SendEnd(b) ==
    /\ Idle /\ Open(b)
    /\ rest[b] = <<>> \/ (format = "openai" /\ Len(rest[b]) <= MaxChunk)
    /\ wire' = Wire(IF format = "openai" /\ rest[b] # <<>>
                    THEN Data("delta", b, rest[b], TRUE)
                    ELSE Data("stop", b, <<>>, TRUE))
    /\ rest' = [rest EXCEPT ![b] = <<>>]
    /\ ended' = ended \cup {b}
    /\ UNCHANGED <<path, sent, carry, tmpl, pending, out, over>>

\* A ping, a usage event, a role chunk: nothing in it is redacted.
SendOther ==
    /\ Idle /\ ended # Used
    /\ \A i \in 1..Len(out) : out[i].line = "data" => out[i].name # "ping"
    /\ wire' = Wire(Data("ping", None, <<>>, FALSE))
    /\ UNCHANGED <<model, sent, carry, tmpl, pending, out, over>>

SendDone ==
    /\ Idle /\ format = "openai" /\ ended = Used
    /\ \A i \in 1..Len(out) : out[i] # Done
    /\ wire' = Wire(Done)
    /\ UNCHANGED <<model, sent, carry, tmpl, pending, out, over>>

-----------------------------------------------------------------------------
(* The gateway's side: handleLine *)

\* flushCarry: what is held goes out as an event made like the last text event
\* (for OpenAI always under choice index 0, here the first block).
Flushed ==
    IF carry = <<>> \/ tmpl = None THEN <<>>
    ELSE LET block == IF format = "openai" THEN 1 ELSE tmpl
         IN  Wire(Data("delta", block, Redact(carry), FALSE))

Read(line) ==
    /\ ~over /\ wire # <<>> /\ line = Head(wire)
    /\ wire' = Tail(wire)
    /\ UNCHANGED <<model, over>>

\* Faulty: the event line is passed on at once.
PassEvent ==
    /\ wire # <<>> /\ Head(wire).line = "event"
    /\ Read(Head(wire))
    /\ out' = Append(out, Head(wire))
    /\ UNCHANGED <<sent, carry, tmpl, pending>>

\* event: is held, so that no flush comes between it and its data.
HoldEvent ==
    /\ wire # <<>> /\ Head(wire).line = "event"
    /\ Read(Head(wire))
    /\ pending' = Append(pending, Head(wire))
    /\ UNCHANGED <<sent, carry, tmpl, out>>

\* The blank line after an event.
PassBlank ==
    /\ wire # <<>> /\ Head(wire).line = "blank"
    /\ Read(Head(wire))
    /\ out' = out \o pending \o <<Head(wire)>>
    /\ pending' = <<>>
    /\ UNCHANGED <<sent, carry, tmpl>>

\* Faulty: the held text waits for the next text of any block.
NoFlushTrigger(data) == FALSE

IsFlushTrigger(data) == data.ends /\ format # "other"

\* An event without text: passed on, after a flush when it ends a block or the stream.
PassData ==
    /\ wire # <<>> /\ Head(wire).line = "data" /\ ~HasText(Head(wire))
    /\ Read(Head(wire))
    /\ LET flush == IsFlushTrigger(Head(wire)) \/ Head(wire) = Done IN
          /\ out' = out \o (IF flush THEN Flushed ELSE <<>>) \o pending \o <<Head(wire)>>
          /\ carry' = IF flush /\ tmpl # None THEN <<>> ELSE carry
    /\ pending' = <<>>
    /\ UNCHANGED <<sent, tmpl>>

\* A text delta in a format with holdback (after a flush when it ends its choice):
\* the text joins the carry and what feedText releases takes its place.
FeedText ==
    /\ wire # <<>> /\ Head(wire).line = "data" /\ HasText(Head(wire))
    /\ HeldBack(Head(wire).block)
    /\ Read(Head(wire))
    /\ LET data == Head(wire)
           flush == IsFlushTrigger(data)
           held == (IF flush /\ tmpl # None THEN <<>> ELSE carry) \o data.text
           n == Release(held)
       IN /\ carry' = SubSeq(held, n + 1, Len(held))
          /\ tmpl' = data.block
          /\ out' = out \o (IF flush THEN Flushed ELSE <<>>) \o pending
                        \o <<[data EXCEPT !.text = Redact(SubSeq(held, 1, n))]>>
          /\ sent' = [sent EXCEPT ![data.block] = @ \o data.text]
    /\ pending' = <<>>

\* A delta without holdback (tool arguments, other formats): redacted by itself.
RedactInPlace ==
    /\ wire # <<>> /\ Head(wire).line = "data" /\ HasText(Head(wire))
    /\ ~HeldBack(Head(wire).block)
    /\ Read(Head(wire))
    /\ out' = out \o pending \o <<[Head(wire) EXCEPT !.text = Redact(@)]>>
    /\ sent' = [sent EXCEPT ![Head(wire).block] = @ \o Head(wire).text]
    /\ pending' = <<>>
    /\ UNCHANGED <<carry, tmpl>>

HandleLine == HoldEvent \/ PassBlank \/ PassData \/ FeedText \/ RedactInPlace

\* Faulty: what is held is dropped with the body.
EndOfBodyDrops ==
    /\ ~over
    /\ over' = TRUE
    /\ wire' = <<>>
    /\ out' = out \o pending
    /\ carry' = <<>>
    /\ pending' = <<>>
    /\ UNCHANGED <<model, sent, tmpl>>

\* The body ends: after the last event, or anywhere when the connection breaks.
\* Process flushes what it holds.
EndOfBody ==
    /\ ~over
    /\ over' = TRUE
    /\ wire' = <<>>
    /\ out' = out \o Flushed \o pending
    /\ carry' = IF tmpl # None THEN <<>> ELSE carry
    /\ pending' = <<>>
    /\ UNCHANGED <<model, sent, tmpl>>

\* The connection breaks inside a data line.  What there is of it is not JSON and is
\* passed on as it is, with the text in it; it has no newline, so the first line flushed
\* after it is swallowed by it.  (A cut event line has no text and is left out.)
EndInsideLine ==
    /\ ~over
    /\ wire # <<>> /\ Head(wire).line = "data"
    /\ over' = TRUE
    /\ wire' = <<>>
    /\ \E n \in 0..Len(Head(wire).text) :
          out' = out \o pending \o <<CutLine(SubSeq(Head(wire).text, 1, n))>>
                     \o (IF Flushed = <<>> THEN <<>> ELSE Tail(Flushed))
    /\ carry' = IF tmpl # None THEN <<>> ELSE carry
    /\ pending' = <<>>
    /\ UNCHANGED <<model, sent, tmpl>>

Next ==
    \/ \E b \in Blocks, n \in 1..MaxChunk : SendText(b, n)
    \/ \E b \in Blocks : SendEnd(b)
    \/ SendOther
    \/ SendDone
    \/ HandleLine
    \/ EndOfBody
    \/ EndInsideLine

Spec == Init /\ [][Next]_vars

-----------------------------------------------------------------------------
(* Answers for which the properties below hold.  For two choices of OpenAI, which    *)
(* share the carry, and for values with whitespace in them, which it may be cut at   *)
(* (cards, IBANs and phone numbers in groups, every PEM key), they do not.           *)

OneChoice == "openai" \in Formats => ChoiceSet \subseteq {1}

\* No value has a whitespace character in it: only the space is blank.
PlainChars == {ch \in Characters : IsBlank(ch) => ch = Space}
PlainTexts == \A f \in Formats : Texts[f] \subseteq Seq(PlainChars)

-----------------------------------------------------------------------------
(* Properties *)

\* The text of block b in the data lines the client has been given.
Seen(b) ==
    FlattenSeq([i \in 1..Len(out) |->
        IF out[i].line = "data" /\ out[i].name = "delta" /\ out[i].block = b
        THEN out[i].text ELSE <<>>])

TextBlocks == {b \in Blocks : HeldBack(b)}

\* An OpenAI chunk with finish_reason that brings the last of the text along: what was
\* held is emitted before it, so the text is redacted in two parts.
EndsWithText(b) ==
    \E i \in 1..Len(out) : out[i].line = "data" /\ out[i].block = b /\ out[i].ends /\ out[i].name = "delta"

\* What the client is to have of block b: the redaction of its whole text, or of the
\* two parts of it.
Redactions(b) ==
    LET text == sent[b] IN
    IF EndsWithText(b)
    THEN {Redact(SubSeq(text, 1, n)) \o Redact(SubSeq(text, n + 1, Len(text))) : n \in 0..Len(text)}
    ELSE {Redact(text)}

\* Wherever the model cuts its text into deltas, what the data lines give the client of a
\* block is at every moment a beginning of the redaction of the whole text: no value is
\* missed because it was split, except by the chunk that ends a choice, and nothing is
\* lost, repeated or reordered.  The line a broken connection cuts is no data line: it
\* reaches the client as the model sent it, with the values in it (stream.go:133-136; not
\* what README.md:222-224 says).
SeenIsRedacted == \A b \in TextBlocks : \E text \in Redactions(b) : IsPrefix(Seen(b), text)

\* When the body is over, also by a connection broken between two lines, the client
\* has all of it: nothing stays in the carry.
NothingHeldBack ==
    over /\ (\A i \in 1..Len(out) : out[i].line # "cut") =>
        \A b \in TextBlocks : Seen(b) \in Redactions(b)

\* stream.go:50: "so a flush never lands between them": the client reads every
\* event line directly before the data it names, also around a synthetic event.
\* (The last line may be an event whose data the provider never sent.)
EventsPaired ==
    \A i \in 1..(Len(out) - 1) :
        out[i].line = "event" =>
            \/ out[i + 1].line = "cut"
            \/ out[i + 1].line = "data" /\ out[i + 1].name = out[i].name

\* stream.go:310: "events that end a content block, so held text is emitted first":
\* no text of a block follows the event that ended it, unless that brought text itself.
NoTextAfterEnd ==
    \A i, j \in 1..Len(out) :
        i < j /\ out[i].line = "data" /\ out[i].ends /\ out[i].name # "delta"
              /\ out[j].line = "data" /\ out[j].name = "delta" /\ out[j].text # <<>>
        => out[i].block # out[j].block

-----------------------------------------------------------------------------
(* A claim of the documentation that holds only in part *)

RawChars(text) == {i \in 1..Len(text) : text[i][1] \in Values}

\* README.md:224: "assistant text is buffered across chunks [...] so a value split
\* across two SSE deltas [...] is still tokenized": when no text read so far ends
\* inside a value, the client has been given no part of a value (unless it is to have
\* the values themselves).
SplitValuesTokenized ==
    ~reveal /\ (\A b \in Blocks : RawChars(Redact(sent[b])) = {}) =>
        \A b \in Blocks : RawChars(Seen(b)) = {}

=============================================================================
