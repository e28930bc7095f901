------------------------------- MODULE Vault --------------------------------
(***************************************************************************)
(* The reversible token vault of internal/vault/vault.go: a token KIND_n   *)
(* stands for one original value.  Assign hands out tokens from memory,    *)
(* Flush writes the whole map to a temporary file and renames it over the  *)
(* vault file, and a restarted process rebuilds its reverse map and its    *)
(* counters from the file alone.                                           *)
(*                                                                         *)
(* Assign, Flush and Reveal exclude each other by Vault.mu.  The two system*)
(* calls of a flush are separate steps because each may fail and the       *)
(* process may stop between them; "flushing" is TRUE while the lock is held*)
(* there.  Sealing (AES-GCM with the right key) is lossless, so a file     *)
(* holds a map, or Torn when it was cut short.                             *)
(***************************************************************************)
EXTENDS Naturals, FiniteSets

CONSTANTS
    Kinds,       \* the detector kinds (EMAIL, CARD, ... and those of the NER service)
    Lettered,    \* the kinds of capital letters alone: all that Reveal's pattern matches
    Values,      \* the original values
    MaxFaults,   \* bound on failed writes and renames
    MaxCrashes   \* bound on process crashes

ASSUME KindsAssumption == Lettered \subseteq Kinds
ASSUME BoundsAssumption == MaxFaults \in Nat /\ MaxCrashes \in Nat

VARIABLES
    running,   \* a process has the vault open
    fwd,       \* token -> value
    rev,       \* <<kind, value>> -> token
    counter,   \* kind -> last number assigned
    dirty,     \* assignments made since the last successful Flush
    flushing,  \* a Flush has written the temporary file and not yet renamed it
    disk,      \* the vault file
    tmp,       \* the temporary file
    faults,
    crashes

vars == <<running, fwd, rev, counter, dirty, flushing, disk, tmp, faults, crashes>>
memory == <<running, fwd, rev, counter, dirty>>

-----------------------------------------------------------------------------
NoMap == [t \in {} |-> t]

\* What a file holds: a whole sealed map, or what is left of a write cut short.
Whole(map) == [whole |-> TRUE, map |-> map]
Torn       == [whole |-> FALSE, map |-> NoMap]

Token(kind, n) == <<kind, n>>

\* f with one more pair, a new key or an overwritten one.
Put(f, key, val) == [k \in DOMAIN f \cup {key} |-> IF k = key THEN val ELSE f[k]]

\* load: the reverse map and the counters follow from the persisted map.  When two
\* tokens of a kind had the same value, Go's map order would pick either of them.
ReverseOf(f) ==
    {r \in [{<<t[1], f[t]>> : t \in DOMAIN f} -> DOMAIN f] :
        \A k \in DOMAIN r : r[k][1] = k[1] /\ f[r[k]] = k[2]}

Numbers(f, kind) == {0} \cup {t[2] : t \in {u \in DOMAIN f : u[1] = kind}}

\* Faulty: the counters start again at every opening.
FreshCounters(f) == {[kind \in Kinds |-> 0]}

CountersOf(f) ==
    {c \in [Kinds -> {0} \cup {t[2] : t \in DOMAIN f}] :
        \A kind \in Kinds :
            c[kind] \in Numbers(f, kind) /\ \A n \in Numbers(f, kind) : n <= c[kind]}

-----------------------------------------------------------------------------
Init ==
    /\ running = FALSE
    /\ fwd = NoMap /\ rev = NoMap
    /\ counter = [kind \in Kinds |-> 0]
    /\ dirty = FALSE
    /\ flushing = FALSE
    /\ disk = Whole(NoMap)      \* no vault file yet: Open starts an empty vault
    /\ tmp = Whole(NoMap)
    /\ faults = 0 /\ crashes = 0

\* Faulty: a vault file is not loaded when the process opens it.
OpenEmpty ==
    /\ ~running
    /\ running' = TRUE
    /\ fwd' = NoMap /\ rev' = NoMap
    /\ counter' = [kind \in Kinds |-> 0]
    /\ dirty' = FALSE
    /\ UNCHANGED <<flushing, disk, tmp, faults, crashes>>

\* Open: a file that does not decode is an error and the process does not start.
Open ==
    /\ ~running
    /\ disk.whole
    /\ running' = TRUE
    /\ fwd' = disk.map
    /\ rev' \in ReverseOf(disk.map)
    /\ counter' \in CountersOf(disk.map)
    /\ dirty' = FALSE
    /\ UNCHANGED <<flushing, disk, tmp, faults, crashes>>

Unlocked == running /\ ~flushing

\* Assign for a value that already has a token of its kind.
AssignKnown(kind, v) ==
    /\ Unlocked
    /\ <<kind, v>> \in DOMAIN rev
    /\ UNCHANGED vars

\* Faulty: the token is made from the counter before it is advanced.
AssignLate(kind, v) ==
    LET tok == Token(kind, counter[kind]) IN
    /\ Unlocked
    /\ <<kind, v>> \notin DOMAIN rev
    /\ counter' = [counter EXCEPT ![kind] = @ + 1]
    /\ fwd' = Put(fwd, tok, v)
    /\ rev' = Put(rev, <<kind, v>>, tok)
    /\ dirty' = TRUE
    /\ UNCHANGED <<running, flushing, disk, tmp, faults, crashes>>

\* Faulty: the value is not looked up before it is given a token.
AssignAgain(kind, v) ==
    LET tok == Token(kind, counter[kind] + 1) IN
    /\ Unlocked
    /\ counter' = [counter EXCEPT ![kind] = @ + 1]
    /\ fwd' = Put(fwd, tok, v)
    /\ rev' = Put(rev, <<kind, v>>, tok)
    /\ dirty' = TRUE
    /\ UNCHANGED <<running, flushing, disk, tmp, faults, crashes>>

\* Assign for a new value: the next number of the kind.
AssignNew(kind, v) ==
    LET tok == Token(kind, counter[kind] + 1) IN
    /\ Unlocked
    /\ <<kind, v>> \notin DOMAIN rev
    /\ counter' = [counter EXCEPT ![kind] = @ + 1]
    /\ fwd' = Put(fwd, tok, v)
    /\ rev' = Put(rev, <<kind, v>>, tok)
    /\ dirty' = TRUE
    /\ UNCHANGED <<running, flushing, disk, tmp, faults, crashes>>

Assign(kind, v) == AssignKnown(kind, v) \/ AssignNew(kind, v)

\* Flush: the temporary file is written in full, the lock is kept for the rename.
\* (With nothing dirty Flush returns at once and changes nothing.)
FlushWrite ==
    /\ Unlocked /\ dirty
    /\ tmp' = Whole(fwd)
    /\ flushing' = TRUE
    /\ UNCHANGED <<memory, disk, faults, crashes>>

\* Faulty: the early return of a failed write leaves the lock taken.
FlushWriteKeepsLock ==
    /\ Unlocked /\ dirty
    /\ faults < MaxFaults
    /\ tmp' = Torn
    /\ flushing' = TRUE
    /\ faults' = faults + 1
    /\ UNCHANGED <<memory, disk, crashes>>

\* Flush: the write fails and leaves a cut temporary file; dirty stays set.
FlushWriteFails ==
    /\ Unlocked /\ dirty
    /\ faults < MaxFaults
    /\ tmp' = Torn
    /\ faults' = faults + 1
    /\ UNCHANGED <<memory, flushing, disk, crashes>>

\* Flush: the rename replaces the vault file and the assignments are no longer pending.
FlushRename ==
    /\ flushing
    /\ disk' = tmp
    /\ dirty' = FALSE
    /\ flushing' = FALSE
    /\ UNCHANGED <<running, fwd, rev, counter, tmp, faults, crashes>>

\* Faulty: the early return of a failed rename leaves the lock taken.
FlushRenameKeepsLock ==
    /\ flushing
    /\ faults < MaxFaults
    /\ faults' = faults + 1
    /\ UNCHANGED <<memory, flushing, disk, tmp, crashes>>

\* Flush: the rename fails; dirty stays set and the next Flush writes again.
FlushRenameFails ==
    /\ flushing
    /\ faults < MaxFaults
    /\ flushing' = FALSE
    /\ faults' = faults + 1
    /\ UNCHANGED <<memory, disk, tmp, crashes>>

\* The process stops: memory is gone, the files stay; it may stop inside WriteFile.
Crash ==
    /\ running
    /\ crashes < MaxCrashes
    /\ running' = FALSE
    /\ fwd' = NoMap /\ rev' = NoMap
    /\ counter' = [kind \in Kinds |-> 0]
    /\ dirty' = FALSE
    /\ flushing' = FALSE
    /\ tmp' \in IF dirty /\ ~flushing THEN {tmp, Torn} ELSE {tmp}
    /\ crashes' = crashes + 1
    /\ UNCHANGED <<disk, faults>>

Next ==
    \/ Open
    \/ \E kind \in Kinds, v \in Values : Assign(kind, v)
    \/ FlushWrite \/ FlushWriteFails
    \/ FlushRename \/ FlushRenameFails
    \/ Crash

Spec == Init /\ [][Next]_vars

\* Reveal of one token in a text: its original where the pattern [A-Z]+_n matches it
\* and the vault knows it, the token itself otherwise.
Reveal(tok) == IF tok[1] \in Lettered /\ tok \in DOMAIN fwd THEN fwd[tok] ELSE tok

-----------------------------------------------------------------------------
(* Properties *)

Tokens == Kinds \X (Nat \ {0})

IsMap(f) ==
    /\ DOMAIN f \subseteq Tokens
    /\ \A t \in DOMAIN f : f[t] \in Values

TypeOK ==
    /\ running \in BOOLEAN /\ dirty \in BOOLEAN /\ flushing \in BOOLEAN
    /\ IsMap(fwd)
    /\ DOMAIN rev \subseteq Kinds \X Values /\ \A k \in DOMAIN rev : rev[k] \in Tokens
    /\ counter \in [Kinds -> Nat]
    /\ disk.whole \in BOOLEAN /\ IsMap(disk.map)
    /\ tmp.whole \in BOOLEAN /\ IsMap(tmp.map)
    /\ faults \in 0..MaxFaults /\ crashes \in 0..MaxCrashes

\* The two maps of a running vault are inverse to each other, also after a
\* reopening rebuilt one of them: no value has two tokens of a kind and no token
\* is given to two values.
MapsInverse ==
    running =>
        /\ \A t \in DOMAIN fwd :
              <<t[1], fwd[t]>> \in DOMAIN rev /\ rev[<<t[1], fwd[t]>>] = t
        /\ \A k \in DOMAIN rev :
              rev[k] \in DOMAIN fwd /\ rev[k][1] = k[1] /\ fwd[rev[k]] = k[2]

\* The counter of a kind is never behind a token in use, so the next is fresh.
CounterCovers == running => \A t \in DOMAIN fwd : t[2] <= counter[t[1]]

\* A crash or a failed flush at any point leaves a vault file that opens.
DiskOpens == disk.whole

\* When nothing is pending, everything the process knows is in the file.
CleanIsSaved == running /\ ~dirty => disk.map = fwd

\* A token in the vault file keeps its value for ever, over every crash,
\* reopening and failed flush: what was persisted is always revealed as it was.
PersistedForever ==
    [][ \A t \in DOMAIN disk.map :
          t \in DOMAIN disk.map' /\ disk.map'[t] = disk.map[t] ]_vars

\* A running vault reveals every token of the file, of a kind its pattern matches,
\* as the file has it, also while later assignments are pending or lost.
RevealsPersisted ==
    running =>
        \A t \in DOMAIN disk.map : t[1] \in Lettered => Reveal(t) = disk.map[t]

=============================================================================
