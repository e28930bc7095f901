------------------------------ MODULE MCStream ------------------------------
(***************************************************************************)
(* Small answers for Stream.  "mail" is a value without whitespace, "card" *)
(* one with a space in it, "key" an armored key of two lines, "tok" a token *)
(* of the request.                                                         *)
(***************************************************************************)
EXTENDS Stream, TLC

MCWidth  == [mail |-> 3, card |-> 3, key |-> 5, tok |-> 3]
MCBlanks == [mail |-> {}, card |-> {2}, key |-> {2, 4}, tok |-> {}]
X        == <<<<"x", 1>>>>
S        == <<Space>>

Long     == {X \o S \o Whole("mail") \o S \o Whole("mail"), Whole("tok") \o X \o S \o X}
Spaced   == {S \o Whole("mail")}

\* A PEM block that is begun and not ended: nothing is released after its marker.
Opened   == {<<<<"key", 1>>>> \o S \o Whole("mail") \o S}

MixedTexts == [anthropic |-> Spaced, openai |-> Long \cup Opened, other |-> Spaced]

\* A card that stands before the tail, and a key whose end marker has just come.
CardTexts  == [anthropic |-> {Whole("card") \o X \o S, Whole("key")}]

\* The answers of StreamFormats are such as the theorems are about.
ASSUME MixedTextsAssumption == Texts = MixedTexts => OneChoice /\ PlainTexts

=============================================================================
