------------------------------ MODULE Walkers -------------------------------
(***************************************************************************)
(* Which strings of a JSON body are redacted, and what a conversation      *)
(* makes of it: internal/redact (request.go, response.go, gemini.go,       *)
(* reveal.go), called by the proxy.  The client sends its history and a    *)
(* prompt; the gateway redacts the body by its path; the provider answers  *)
(* with what it has read and with what it knows; the gateway redacts the   *)
(* answer and, with auto-reveal, restores the originals; the client keeps  *)
(* the answer and sends it again.                                          *)
(*                                                                         *)
(* A JSON value is <<"str", text>>, <<"arr", sequence>>, <<"obj", record>> *)
(* or <<"null">>; numbers are left out.  A text is a personal value, its   *)
(* token, or a word of the format such as a type; with a vault the token   *)
(* of a value is the same everywhere (modules Vault, RoundTrip).  The name *)
(* of a field may be a personal value, too.                                *)
(***************************************************************************)
EXTENDS Naturals, SequencesExt, TLC

CONSTANTS
    Values,        \* the personal values
    Known,         \* those the provider knows by itself
    Paths,         \* the request paths: their API, and the marks they contain
    Body(_, _),     \* per API, the request with the given messages
    Messages(_, _), \* per API, the messages of a request
    Kept(_, _),     \* per API, the messages a client keeps of an answer
    Prompts(_),     \* per API, what a client appends to its history
    Answers(_, _),  \* per API, what a provider answers with the given texts
    MaxTurns        \* bound on the requests of a conversation

ASSUME WalkersAssumption == Known \subseteq Values /\ MaxTurns \in Nat

VARIABLES
    path, autoReveal, \* the endpoint of the conversation, and the configuration
    turn, turns,      \* who speaks next, and how many requests there were
    history,   \* the messages as the client has them
    asked, forwarded,          \* the last request, before and after redaction
    answer, redacted, given,   \* its answer, redacted, and as the client gets it
    seen,      \* the messages as a provider sees them that is shown its own redacted answers
    signed,    \* the thinking blocks the provider has made
    learned,   \* the values the provider has read
    exposed,   \* the values prompts had at other places than those that are redacted
    unwalked   \* the values whose tokens an answer had at such places

vars == <<path, autoReveal, turn, turns, history, asked, forwarded, answer, redacted,
          given, seen, signed, learned, exposed, unwalked>>

-----------------------------------------------------------------------------
(* JSON *)

Raw(v)   == <<"raw", v>>
Token(v) == <<"token", v>>

Str(text) == <<"str", text>>
Arr(seq)  == <<"arr", seq>>
Obj(rec)  == <<"obj", rec>>
Null      == <<"null">>

IsStr(j) == j[1] = "str"
IsArr(j) == j[1] = "arr"
IsObj(j) == j[1] = "obj"

At(o, k) == IF k \in DOMAIN o[2] THEN o[2][k] ELSE Null
TypeOf(o) == IF IsStr(At(o, "type")) THEN At(o, "type")[2][1] ELSE ""

OnField(o, k, Op(_)) ==
    IF k \in DOMAIN o[2] THEN Obj([o[2] EXCEPT ![k] = Op(@)]) ELSE o

IfObject(j, Op(_)) == IF IsObj(j) THEN Op(j) ELSE j

\* The elements of an array that are objects.
Each(j, Op(_)) ==
    IF IsArr(j) THEN Arr([i \in DOMAIN j[2] |-> IfObject(j[2][i], Op)]) ELSE j

-----------------------------------------------------------------------------
(* Requests *)

Thinking == {"thinking", "redacted_thinking"}

RedactString(j) ==
    IF IsStr(j) /\ j[2][1] = "raw" THEN Str(Token(j[2][2])) ELSE j

RECURSIVE RedactAny(_), RedactContent(_)

RedactAny(j) ==
    IF IsStr(j) THEN RedactString(j)
    ELSE IF IsArr(j) \/ IsObj(j) THEN <<j[1], [k \in DOMAIN j[2] |-> RedactAny(j[2][k])]>>
    ELSE j

RedactSource(src) ==
    CASE TypeOf(src) = "text"    -> OnField(src, "data", RedactString)
      [] TypeOf(src) = "content" -> OnField(src, "content", RedactContent)
      [] OTHER -> src

RedactField(k, j) ==
    CASE k \in {"text", "title", "context"} -> RedactString(j)
      [] k = "input"   -> RedactAny(j)
      [] k = "source"  -> IfObject(j, RedactSource)
      [] k = "content" -> RedactContent(j)
      [] OTHER -> j

\* Faulty: every string of a block is redacted, whatever the block is.
RedactWholeBlock(m) == RedactAny(m)

RedactBlock(m) ==
    IF TypeOf(m) \in Thinking THEN m
    ELSE Obj([k \in DOMAIN m[2] |-> RedactField(k, m[2][k])])

RedactContent(j) == IF IsStr(j) THEN RedactString(j) ELSE Each(j, RedactBlock)

\* A message without content gets one that is null.
RedactMessage(mm) == Obj("content" :> RedactContent(At(mm, "content")) @@ mm[2])

RedactMessages(req) == OnField(req, "messages", LAMBDA j : Each(j, RedactMessage))

RedactItem(m) == OnField(OnField(m, "content", RedactContent), "text", RedactString)

RedactResponses(req) ==
    OnField(OnField(req, "instructions", RedactString), "input",
            LAMBDA j : IF IsStr(j) THEN RedactString(j) ELSE Each(j, RedactItem))

RedactAnthropic(req) ==
    RedactMessages(
        OnField(req, "system", LAMBDA j : IF IsStr(j) THEN RedactString(j)
                                          ELSE Each(j, LAMBDA b : OnField(b, "text", RedactString))))

RedactAnthropicBatch(req) ==
    OnField(req, "requests", LAMBDA j : Each(j, LAMBDA m :
        OnField(m, "params", LAMBDA p : IfObject(p, RedactAnthropic))))

RedactComplete(req) == OnField(req, "prompt", RedactString)

RedactTextAndCall(pm) ==
    OnField(OnField(pm, "text", RedactString), "functionCall",
            LAMBDA j : IfObject(j, LAMBDA fc : OnField(fc, "args", RedactAny)))

RedactGeminiPart(pm) ==
    OnField(RedactTextAndCall(pm), "functionResponse",
            LAMBDA j : IfObject(j, LAMBDA fr : OnField(fr, "response", RedactAny)))

RedactGeminiParts(container) ==
    OnField(container, "parts", LAMBDA j : Each(j, RedactGeminiPart))

RedactGemini(req) ==
    LET system(o, k) == OnField(o, k, LAMBDA j : IfObject(j, RedactGeminiParts))
    IN  OnField(system(system(req, "systemInstruction"), "system_instruction"),
                "contents", LAMBDA j : Each(j, RedactGeminiParts))

\* The format a path is taken for: the first of the marks in it.
Marks == <<"gemini", "/chat/completions", "/responses", "/messages/batches", "/messages", "/complete">>

\* Faulty: the longer path is looked for after the shorter one.
LastMark(p) ==
    IF p.marks = {} THEN "none" ELSE Marks[SelectLastInSeq(Marks, LAMBDA m : m \in p.marks)]

Format(p) ==
    IF p.marks = {} THEN "none" ELSE Marks[SelectInSeq(Marks, LAMBDA m : m \in p.marks)]

\* A body that is not an object is forwarded as it is.
RedactRequest(p, body) ==
    CASE ~IsObj(body) -> body
      [] Format(p) = "gemini"            -> RedactGemini(body)
      [] Format(p) = "/chat/completions" -> RedactMessages(body)
      [] Format(p) = "/responses"        -> RedactResponses(body)
      [] Format(p) = "/messages/batches" -> RedactAnthropicBatch(body)
      [] Format(p) = "/messages"         -> RedactAnthropic(body)
      [] Format(p) = "/complete"         -> RedactComplete(body)
      [] OTHER -> body

-----------------------------------------------------------------------------
(* Responses *)

RedactChoice(cm) == OnField(cm, "message", LAMBDA j : IfObject(j, RedactMessage))

RedactCandidate(cm) == OnField(cm, "content", LAMBDA j : IfObject(j, RedactGeminiParts))

\* Faulty: the answer of a chat is taken for the text itself.
RedactResponseFlat(p, body) == OnField(body, "content", RedactContent)

RedactResponse(p, body) ==
    CASE ~IsObj(body) -> body
      [] Format(p) = "gemini" -> OnField(body, "candidates", LAMBDA j : Each(j, RedactCandidate))
      [] Format(p) = "/chat/completions" -> OnField(body, "choices", LAMBDA j : Each(j, RedactChoice))
      [] Format(p) = "/responses" -> OnField(body, "output", LAMBDA j : Each(j, RedactItem))
      [] Format(p) = "/messages"  -> OnField(body, "content", RedactContent)
      [] Format(p) = "/complete"  -> OnField(body, "completion", RedactString)
      [] OTHER -> body

RECURSIVE RevealAny(_)

RevealAny(j) ==
    IF IsStr(j) THEN IF j[2][1] = "token" THEN Str(Raw(j[2][2])) ELSE j
    ELSE IF IsArr(j) \/ IsObj(j) THEN <<j[1], [k \in DOMAIN j[2] |-> RevealAny(j[2][k])]>>
    ELSE j

-----------------------------------------------------------------------------
(* Where texts stand: what the documentation says, by paths and not by walks *)

\* The texts of a value, each with the way to it: the type of every object and the
\* name of the field taken.
RECURSIVE Leaves(_)

Leaves(j) ==
    LET step(k) == IF IsArr(j) THEN <<"", "[]">> ELSE <<TypeOf(j), k>>
    IN  IF IsStr(j) THEN {<<<<>>, j[2]>>}
        ELSE IF IsArr(j) \/ IsObj(j)
        THEN UNION {{<<<<step(k)>> \o l[1], l[2]>> : l \in Leaves(j[2][k])} : k \in DOMAIN j[2]}
        ELSE {}

\* The fields whose texts are redacted: the string itself, every string below, or
\* the blocks of a content.
Roots(f, side) ==
    LET at(keys, reach) == [keys |-> keys, reach |-> reach]
        parts(keys) ==
            {at(keys \o <<"parts", "[]", "text">>, "string"),
             at(keys \o <<"parts", "[]", "functionCall", "args">>, "any"),
             at(keys \o <<"parts", "[]", "functionResponse", "response">>, "any")}
        messages(keys) == {at(keys \o <<"messages", "[]", "content">>, "content")}
        anthropic(keys) ==
            messages(keys) \cup {at(keys \o <<"system">>, "string"),
                                 at(keys \o <<"system", "[]", "text">>, "string")}
        items(keys) == {at(keys \o <<"[]", "content">>, "content"), at(keys \o <<"[]", "text">>, "string")}
    IN  CASE f = "gemini" ->
                IF side = "request"
                THEN UNION {parts(k) : k \in {<<"contents", "[]">>, <<"systemInstruction">>, <<"system_instruction">>}}
                ELSE parts(<<"candidates", "[]", "content">>)
          [] f = "chat" ->
                IF side = "request" THEN messages(<<>>)
                ELSE {at(<<"choices", "[]", "message", "content">>, "content")}
          [] f = "responses" ->
                IF side = "request"
                THEN items(<<"input">>) \cup {at(<<"input">>, "string"), at(<<"instructions">>, "string")}
                ELSE items(<<"output">>)
          [] f = "batches" ->
                IF side = "request" THEN anthropic(<<"requests", "[]", "params">>) ELSE {}
          [] f = "messages" ->
                IF side = "request" THEN anthropic(<<>>) ELSE {at(<<"content">>, "content")}
          [] f = "complete" ->
                {at(IF side = "request" THEN <<"prompt">> ELSE <<"completion">>, "string")}
          [] OTHER -> {}

\* A way from a content to a text that is redacted leads through blocks that are not
\* thinking, and through nothing but nested contents and document sources.
RECURSIVE InContent(_)

InContent(way) ==
    LET keys == [i \in DOMAIN way |-> way[i][2]]
        inside(n, k, type) == Len(way) > n /\ keys[n + 1] = k /\ (type = "" \/ way[n + 1][1] = type)
    IN  \/ way = <<>>
        \/ /\ Len(way) > 1 /\ keys[1] = "[]" /\ way[2][1] \notin Thinking
           /\ \/ Len(way) = 2 /\ keys[2] \in {"text", "title", "context"}
              \/ keys[2] = "input"
              \/ keys[2] = "content" /\ InContent(SubSeq(way, 3, Len(way)))
              \/ keys[2] = "source" /\ inside(2, "data", "text") /\ Len(way) = 3
              \/ keys[2] = "source" /\ inside(2, "content", "content")
                 /\ InContent(SubSeq(way, 4, Len(way)))

IsText(f, side, way) ==
    \E r \in Roots(f, side) :
        LET rest == SubSeq(way, Len(r.keys) + 1, Len(way))
        IN  /\ Len(way) >= Len(r.keys)
            /\ \A i \in DOMAIN r.keys : way[i][2] = r.keys[i]
            /\ CASE r.reach = "string" -> rest = <<>>
                 [] r.reach = "content" -> InContent(rest)
                 [] OTHER -> TRUE

-----------------------------------------------------------------------------
(* The conversation *)

F == path.api

\* The values that can be read in a body: as a text or as the name of a field.
Readable(j) ==
    {v \in Values : \E l \in Leaves(j) : l[2] = Raw(v) \/ \E i \in DOMAIN l[1] : l[1][i][2] = v}

\* The values that stand in a body, as a text or as a token, where nothing is redacted.
Outside(side, j) ==
    {v \in Values : \E l \in Leaves(j) :
        \/ l[2] \in {Raw(v), Token(v)} /\ ~IsText(F, side, l[1])
        \/ \E i \in DOMAIN l[1] : l[1][i][2] = v}

RECURSIVE ThinkingIn(_)

ThinkingIn(j) ==
    IF IsArr(j) \/ IsObj(j)
    THEN (IF IsObj(j) /\ TypeOf(j) \in Thinking THEN {j} ELSE {})
         \cup UNION {ThinkingIn(j[2][k]) : k \in DOMAIN j[2]}
    ELSE {}

Init ==
    /\ path \in Paths /\ autoReveal \in BOOLEAN
    /\ turn = "client" /\ turns = 0
    /\ history = <<>> /\ seen = <<>>
    /\ asked = Null /\ forwarded = Null
    /\ answer = Null /\ redacted = Null /\ given = Null
    /\ signed = {} /\ learned = {} /\ exposed = {} /\ unwalked = {}

\* A client sends its history and a prompt.
Ask(prompt) ==
    /\ turn = "client" /\ turns < MaxTurns /\ history \o prompt # <<>>
    /\ history' = history \o prompt
    /\ asked' = Body(F, history')
    /\ forwarded' = RedactRequest(path, asked')
    /\ seen' = seen \o (IF prompt = <<>> THEN <<>>
                         ELSE Messages(F, RedactRequest(path, Body(F, prompt))))
    /\ learned' = learned \cup Readable(forwarded')
    /\ exposed' = exposed \cup Outside("request", Body(F, IF prompt = <<>> THEN history ELSE prompt))
    /\ turn' = "model" /\ turns' = turns + 1
    /\ UNCHANGED <<path, autoReveal, answer, redacted, given, signed, unwalked>>

\* What a provider can put in an answer: what it has read, and what it knows.
Sayable ==
    {t \in UNION {{Raw(v), Token(v)} : v \in Values} :
        (\E l \in Leaves(forwarded) : l[2] = t) \/ \E v \in Known : t = Raw(v)}

\* A provider answers; the answer is redacted and, when configured, revealed.
Answer(j) ==
    /\ turn = "model"
    /\ answer' = j
    /\ redacted' = RedactResponse(path, j)
    /\ given' = IF autoReveal THEN RevealAny(redacted') ELSE redacted'
    /\ history' = history \o Kept(F, given')
    /\ seen' = seen \o Kept(F, redacted')
    /\ signed' = signed \cup ThinkingIn(j)
    /\ unwalked' = unwalked \cup Outside("response", j)
    /\ turn' = "client"
    /\ UNCHANGED <<path, autoReveal, turns, asked, forwarded, learned, exposed>>

Next ==
    \/ \E prompt \in Prompts(F) : Ask(prompt)
    \/ \E j \in Answers(F, Sayable) : Answer(j)

Spec == Init /\ [][Next]_vars

-----------------------------------------------------------------------------
(* Properties *)

\* The walk over a body redacts exactly the texts at the documented places, at any
\* depth, and leaves every other text, name and type of the body as it was.
RedactedAt(side, j, result) ==
    Leaves(result) =
        {IF IsText(F, side, l[1]) THEN <<l[1], RedactString(Str(l[2]))[2]>> ELSE l : l \in Leaves(j)}

WalksExactly ==
    /\ RedactedAt("request", asked, forwarded)
    /\ RedactedAt("response", answer, redacted)

\* However often answers come back as history, a provider only ever reads the values it
\* knows and those that stood in a prompt where nothing is redacted; with auto-reveal
\* also those it put, as tokens, at such places of an answer.
LeavesOnlyOutside ==
    learned \subseteq Known \cup exposed \cup (IF autoReveal THEN unwalked ELSE {})

\* What was redacted stays so: the history in a request is what the provider would
\* have been shown of its own answers, also after they were revealed and redacted
\* again, unless tokens stood where nothing is redacted.
HistoryAsSeen ==
    turn = "model" /\ (autoReveal => unwalked = {}) =>
        Messages(F, forwarded) = Messages(F, Body(F, seen))

\* README.md:218: "Signed `thinking` blocks are left intact so signatures stay valid":
\* a thinking block that goes to the provider is one that came from it.
SignedThinkingIntact == ThinkingIn(forwarded) \subseteq signed

\* It is so as long as no answer is revealed.
ThinkingIntactUnlessRevealed == autoReveal \/ SignedThinkingIntact

=============================================================================
