------------------------------- MODULE Ledger -------------------------------
(***************************************************************************)
(* What the audit log promises the gateway: an append-only ledger.  What   *)
(* is in it stays in it, in order, whatever happens.  As long as its disk  *)
(* has not failed and no power loss has torn its tail, a confirmation is   *)
(* given only for the entry that is last in it, and may make earlier,      *)
(* unconfirmed entries (of a process that stopped after its write)         *)
(* permanent with it.  After that a confirmation tells no position.        *)
(***************************************************************************)
EXTENDS Naturals, Sequences, SequencesExt

VARIABLES
    ledger,     \* the entries on stable storage
    confirmed,  \* the positions whose entry was confirmed to the caller
    intact      \* no write or sync has failed and no power loss has torn the tail

Init ==
    /\ ledger = <<>>
    /\ confirmed = {}
    /\ intact = TRUE

Confirm ==
    /\ intact /\ intact' = TRUE
    /\ IsStrictPrefix(ledger, ledger')
    /\ confirmed' = confirmed \cup {Len(ledger')}

Fail ==
    /\ intact /\ intact' = FALSE
    /\ UNCHANGED <<ledger, confirmed>>

ConfirmUnsure ==
    /\ ~intact /\ intact' = FALSE
    /\ IsStrictPrefix(ledger, ledger')
    /\ confirmed \subseteq confirmed'

Spec == Init /\ [][Confirm \/ Fail \/ ConfirmUnsure]_<<ledger, confirmed, intact>>

=============================================================================
