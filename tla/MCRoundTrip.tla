---------------------------- MODULE MCRoundTrip -----------------------------
(* Values and prompts for checking RoundTrip on small instances. *)
EXTENDS RoundTrip

Few(words, kinds, valid, service) ==
    [words |-> words, kinds |-> kinds, valid |-> valid, service |-> service]

SmallValues == {"jwt", "card", "vat", "account", "digits"}

\* The number of an account beside a card: the pattern of the card takes both, and the
\* sum of the digits is wrong.
SmallShape ==
    [v \in SmallValues |->
        CASE v = "jwt"     -> Few(<<"j">>, {"JWT"}, {"JWT"}, "")
          [] v = "card"    -> Few(<<"c1", "c2">>, {"CARD"}, {"CARD"}, "")
          [] v = "vat"     -> Few(<<"v">>, {"VAT", "IBAN"}, {"VAT", "IBAN"}, "")
          [] v = "account" -> Few(<<"a">>, {}, {}, "ACCOUNT_NUMBER")
          [] v = "digits"  -> Few(<<"c1", "c2", "a">>, {"CARD"}, {}, "")]

SmallLettered == {"JWT", "CARD", "VAT", "IBAN", "SECRET"}

\* Values beside each other, behind labels, a card that a keyed secret cuts, and one
\* beside digits.
SmallPrompts ==
    {Whole("card") \o Whole("vat"),
     <<Key>> \o Whole("jwt") \o Whole("account"),
     <<Key>> \o Whole("card"),
     <<Bearer>> \o Whole("vat") \o <<Plain>>,
     Whole("digits"),
     Whole("account") \o <<Bearer>> \o Whole("jwt")}

=============================================================================
