---------------------------- MODULE MCAnchoring -----------------------------
(* Entries for checking the log and its anchoring on small instances: two     *)
(* that are joined to one text, one that is another, and one that is too long *)
(* for a reader.                                                              *)
EXTENDS Anchoring

CONSTANTS a, b  \* payload hashes

Moved == [path |-> <<"p", NL>>, model |-> <<"m">>, payload |-> a]
Twin  == [path |-> <<"p">>, model |-> <<NL, "m">>, payload |-> a]
Plain == [path |-> <<"p">>, model |-> <<"m">>, payload |-> b]
Vast  == [path |-> <<"p">>, model |-> <<"m", "m">>, payload |-> a]

LongEntries == {Vast}
AllEntries  == {Moved, Twin, Plain, Vast}

=============================================================================
