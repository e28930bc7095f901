------------------------------ MODULE RoundTrip ------------------------------
(***************************************************************************)
(* What the detectors make of a text, one pass after the other, and what   *)
(* Reveal makes of the result: internal/redact (redact.go, detectors.go,   *)
(* eu.go, ner.go, reveal.go) with the vault's Assign and Reveal, in a      *)
(* conversation that feeds each its own output again.  A client sends      *)
(* prompts and what it has been shown before; the model answers with parts *)
(* of what it has been sent.                                               *)
(*                                                                         *)
(* A text is a sequence of words.  A value is one or more words, and may   *)
(* have words of another value in it: a card and the digits beside it are  *)
(* one more value, that the card's pattern matches and its validator       *)
(* rejects.  Shape gives for each value the kinds whose patterns match it, *)
(* and those whose validators accept it (luhnValid, amkaValid, afmValid; a *)
(* pattern without a validator accepts what it matches).  Two words are    *)
(* labels: Key (password=, token: and their like) and Bearer.  A token is  *)
(* one word, and a pass may find it after a label.  The vault is the       *)
(* sequence of its assignments, so the number of a token is its place.     *)
(***************************************************************************)
EXTENDS Naturals, SequencesExt

CONSTANTS
    Values,    \* the values that occur
    Shape,     \* value -> its words, the kinds that match and accept it, its NER kind
    Lettered,  \* the kinds of capital letters alone: all that Reveal's pattern matches
    Prompts,   \* what clients write
    MaxTurns   \* bound on the requests of the conversation

ASSUME ShapeAssumption ==
    /\ \A v \in Values : Len(Shape[v].words) \in Nat \ {0} /\ Shape[v].valid \subseteq Shape[v].kinds
    /\ MaxTurns \in Nat

VARIABLES
    euPack, autoReveal, \* the configuration
    vault,   \* the assignments: kind and content of each token
    turn,    \* who speaks next, "client" or "model"
    turns,
    given,   \* the text that was last redacted
    result,  \* and what came of it
    shown    \* what the client received last

vars == <<euPack, autoReveal, vault, turn, turns, given, result, shown>>

-----------------------------------------------------------------------------
(* Texts *)

Plain  == <<"plain">>
Key    == <<"key">>
Bearer == <<"bearer">>
Token(n)   == <<"token", n>>
Word(v, i) == <<"word", Shape[v].words[i]>>
Size(v)    == Len(Shape[v].words)

\* What is written by hand: a prompt has no token of its own in it.
Words == {Plain, Key, Bearer} \cup UNION {{Word(v, i) : i \in 1..Size(v)} : v \in Values}

ASSUME PromptsAssumption == Prompts \subseteq Seq(Words)

Whole(v) == [i \in 1..Size(v) |-> Word(v, i)]

\* The value v stands whole in the text from position i on.
StandsAt(text, i, v) ==
    /\ i + Size(v) - 1 <= Len(text)
    /\ SubSeq(text, i, i + Size(v) - 1) = Whole(v)

Has(text, word) == \E i \in 1..Len(text) : text[i] = word
HasToken(text)  == \E i \in 1..Len(text) : text[i][1] = "token"

-----------------------------------------------------------------------------
(* Detectors *)

Pattern(kind) == [how |-> "pattern", kind |-> kind, found |-> {}]
Keyed         == [how |-> "keyed", kind |-> "SECRET", found |-> {}]
AfterBearer   == [how |-> "bearer", kind |-> "SECRET", found |-> {}]
Entities(vs)  == [how |-> "entities", kind |-> "", found |-> vs]

EUDetectors == <<Pattern("VAT"), Pattern("AMKA"), Pattern("TAXID")>>

Builtins ==
    <<Pattern("PRIVATEKEY"), Pattern("JWT"), Keyed, AfterBearer, Pattern("APIKEY"),
      Pattern("SSN"), Pattern("IBAN"), Pattern("CARD"), Pattern("IP"),
      Pattern("EMAIL"), Pattern("PHONE")>>

CustomTerms == <<Pattern("NAME")>>

\* The passes in their order; the NER service has found the values vs.
Passes(eu, vs) ==
    (IF eu THEN EUDetectors ELSE <<>>) \o Builtins \o CustomTerms \o <<Entities(vs)>>

\* Faulty: what follows "bearer" may be in brackets.
AfterAnyLabel(d, text, i) ==
    /\ i < Len(text)
    /\ \/ d.how = "keyed" /\ text[i] = Key
       \/ d.how = "bearer" /\ text[i] = Bearer

\* Whether d, which keeps the label it looks for and takes the word after it, matches at
\* position i.  A keyed secret is whatever follows up to a space, also a token; what
\* follows "bearer" is letters and digits.
AfterLabel(d, text, i) ==
    /\ i < Len(text)
    /\ \/ d.how = "keyed" /\ text[i] = Key
       \/ d.how = "bearer" /\ text[i] = Bearer /\ text[i + 1][1] = "word"

\* What detector d can match at position i: the label it keeps, how many words it takes
\* after that, as which kind, and whether its validator accepts it.
Matches(d, text, i) ==
    (IF AfterLabel(d, text, i)
     THEN {[label |-> <<text[i]>>, len |-> 1, kind |-> d.kind, valid |-> TRUE]} ELSE {})
    \cup {[label |-> <<>>, len |-> Size(v), kind |-> d.kind, valid |-> d.kind \in Shape[v].valid] :
             v \in {u \in Values : d.how = "pattern" /\ d.kind \in Shape[u].kinds
                                 /\ StandsAt(text, i, u)}}
    \cup {[label |-> <<>>, len |-> Size(v), kind |-> Shape[v].service, valid |-> TRUE] :
             v \in {u \in d.found : StandsAt(text, i, u)}}

\* The patterns are greedy, and the names are sorted by their length.
Longest(found) == {m \in found : \A x \in found : x.len <= m.len}

\* Vault.Assign: the place of an assignment, if there is one yet.
Place(entries, kind, content) ==
    {n \in 1..Len(entries) : entries[n] = [kind |-> kind, content |-> content]}

Assign(entries, kind, content) ==
    IF Place(entries, kind, content) # {} THEN entries
    ELSE Append(entries, [kind |-> kind, content |-> content])

\* Faulty: the whole match is replaced, with its label.
ReplacedWhole(m, n) == <<Token(n)>>

\* What the match m becomes.
Replaced(m, n) == Append(m.label, Token(n))

\* Position i of a pass over the text: nothing when a match has taken it, else what it
\* becomes and the position that comes next.  A match the validator rejects takes its
\* words like any other, and leaves them as they are, up to r.kept.
Step(d, text, r, i) ==
    LET found == Matches(d, text, i)
        m == CHOOSE x \in Longest(found) : TRUE
        last == i + Len(m.label) + m.len - 1
        c == SubSeq(text, i + Len(m.label), last)
        entries == Assign(r.vault, m.kind, c)
        n == CHOOSE k \in Place(entries, m.kind, c) : TRUE
        copied == [r EXCEPT !.text = Append(@, text[i]), !.next = i + 1]
    IN  IF i < r.next THEN r
        ELSE IF i <= r.kept \/ found = {} THEN copied
        ELSE IF ~m.valid THEN [copied EXCEPT !.kept = last]
        ELSE [r EXCEPT !.text = @ \o Replaced(m, n), !.vault = entries, !.next = last + 1]

\* One pass from left to right over the text s.text, with the assignments s.vault.
Apply(d, s) ==
    LET scan[i \in 0..Len(s.text)] ==
          IF i = 0 THEN [text |-> <<>>, vault |-> s.vault, next |-> 1, kept |-> 0]
          ELSE Step(d, s.text, scan[i - 1], i)
        done == scan[Len(s.text)]
    IN  IF \A i \in 1..Len(s.text) : Matches(d, s.text, i) = {} THEN s
        ELSE [text |-> done.text, vault |-> done.vault]

\* Faulty: the passes stop at the first one that finds something.
RedactOnce(text, entries, eu, vs) ==
    LET passes == Passes(eu, vs)
        after[k \in 0..Len(passes)] ==
          IF k = 0 THEN [text |-> text, vault |-> entries]
          ELSE IF after[k - 1].text # text THEN after[k - 1]
          ELSE Apply(passes[k], after[k - 1])
    IN  after[Len(passes)]

Redact(text, entries, eu, vs) ==
    LET passes == Passes(eu, vs)
        after[k \in 0..Len(passes)] ==
          IF k = 0 THEN [text |-> text, vault |-> entries]
          ELSE Apply(passes[k], after[k - 1])
    IN  after[Len(passes)]

\* Faulty: only one token of a text is replaced.
RevealFirst(text, entries) ==
    IF text = <<>> \/ text[1][1] # "token" THEN text
    ELSE entries[text[1][2]].content \o Tail(text)

\* Vault.Reveal: one pass over the text; what it puts in is not looked at again.
Reveal(text, entries) ==
    FlattenSeq([i \in 1..Len(text) |->
        IF text[i][1] = "token" /\ entries[text[i][2]].kind \in Lettered
        THEN entries[text[i][2]].content ELSE <<text[i]>>])

-----------------------------------------------------------------------------
(* The conversation *)

Init ==
    /\ euPack \in BOOLEAN /\ autoReveal \in BOOLEAN
    /\ vault = <<>>
    /\ turn = "client" /\ turns = 0
    /\ given = <<>> /\ result = <<>> /\ shown = <<>>

\* The NER service finds some of the values it knows, or fails and finds none.
Findings(text) ==
    SUBSET {v \in Values : Shape[v].service # "" /\ \E i \in 1..Len(text) : StandsAt(text, i, v)}

RedactGiven(text, vs) ==
    LET r == Redact(text, vault, euPack, vs)
    IN  given' = text /\ result' = r.text /\ vault' = r.vault

\* A request: a prompt, or the history as the client has it and a prompt.
Ask(prompt, vs) ==
    /\ turn = "client" /\ turns < MaxTurns
    /\ RedactGiven(shown \o prompt, vs)
    /\ turn' = "model" /\ turns' = turns + 1
    /\ UNCHANGED <<euPack, autoReveal, shown>>

Echoes(text) == {t \in SubSeqs(text) : t # <<>>}

\* The answer: words of the request, perhaps behind a label; redacted, and revealed
\* for the client when that is configured.
Answer(words, vs) ==
    /\ turn = "model"
    /\ RedactGiven(words, vs)
    /\ shown' = IF autoReveal THEN Reveal(result', vault') ELSE result'
    /\ turn' = "client"
    /\ UNCHANGED <<euPack, autoReveal, turns>>

Next ==
    \/ \E prompt \in Prompts : \E vs \in Findings(shown \o prompt) : Ask(prompt, vs)
    \/ \E words \in Echoes(result) \cup {<<Key>> \o w : w \in Echoes(result)} :
          \E vs \in Findings(words) : Answer(words, vs)

Spec == Init /\ [][Next]_vars

-----------------------------------------------------------------------------
(* Properties *)

\* A text with every token replaced by what `by' has for it.
Expand(text, by) ==
    FlattenSeq([i \in 1..Len(text) |->
        IF text[i][1] = "token" THEN by[text[i][2]] ELSE <<text[i]>>])

\* What each token stands for: its content, and so on for the tokens in that.
Stands(entries) ==
    LET stands[n \in 1..Len(entries)] == Expand(entries[n].content, stands)
    IN  stands

\* What a text stands for.
Meaning(text, entries) == Expand(text, Stands(entries))

\* However often a text has been redacted, answered and redacted again, and whatever
\* the passes found of each other's tokens, it still stands for the same words.
MeaningKept == Meaning(result, vault) = Meaning(given, vault)

\* A text without tokens of keyed secrets, and of kinds that Reveal knows, is restored
\* whole by one Reveal, in any round of the conversation.
RevealExactOutsideSecrets ==
    (\A i \in 1..Len(result) : result[i][1] = "token" =>
        vault[result[i][2]].kind \in Lettered \ {"SECRET"}) =>
    Reveal(result, vault) = Meaning(given, vault)

\* At position i of the text the value v stands, in something that its pattern matches as
\* a whole and the validator rejects: a card with digits beside it.
SwallowedAt(v, kind, text, i) ==
    /\ StandsAt(text, i, v)
    /\ \E u \in Values, j \in 1..i :
          /\ kind \in Shape[u].kinds \ Shape[u].valid
          /\ StandsAt(text, j, u) /\ i <= j + Size(u) - 1

Before(text, i) == SubSeq(text, 1, i - 1)

\* The kinds the patterns of the configuration look for.
PatternKinds(eu) ==
    {Passes(eu, {})[k].kind : k \in {j \in 1..Len(Passes(eu, {})) : Passes(eu, {})[j].how = "pattern"}}

\* No value a pattern of the configuration accepts stands whole in what was redacted,
\* wherever it stood, and whatever other passes replaced around it, unless it came, at
\* that place, in a longer match that the validator of the same pattern rejected
\* (redact.go:170-172).
NothingWholeLeft ==
    \A v \in Values : \A i \in 1..Len(result) : StandsAt(result, i, v) =>
        \A kind \in Shape[v].valid \cap PatternKinds(euPack) :
            \E j \in 1..Len(given) :
                /\ SwallowedAt(v, kind, given, j)
                /\ Meaning(Before(result, i), vault) = Meaning(Before(given, j), vault)

\* A redacted text is redacted for good: as history it is sent again as it is, but for
\* what the NER service finds in it now, and only that takes new tokens; unless a keyed
\* label stands in it, or a value came in a rejected match in what it was made of.
RedactedStays ==
    /\ ~Has(result, Key)
    /\ \A v \in Values, i \in 1..Len(given) :
          \A kind \in Shape[v].valid \cap PatternKinds(euPack) : ~SwallowedAt(v, kind, given, i)
    => \A vs \in Findings(result) :
          Redact(result, vault, euPack, vs)
             = Apply(Entities(vs), [text |-> result, vault |-> vault])

=============================================================================
