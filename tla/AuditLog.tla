------------------------------ MODULE AuditLog ------------------------------
(***************************************************************************)
(* The hash-chained, fsynced audit log of internal/audit/log.go, and the   *)
(* verifier of internal/audit/verify.go that replays it.                   *)
(*                                                                         *)
(* One process has the log open.  Append runs under Log.mu, so at most one *)
(* record is between its Write and its Sync; the two are separate steps    *)
(* here because a write or a sync may fail, and the process or the machine *)
(* may stop, between them.                                                 *)
(*                                                                         *)
(* The file is a sequence of lines.  A line is a record, or Corrupt when   *)
(* what stands between two newlines is not one JSON object: a write cut    *)
(* short, or two writes that share a line.  "terminated" tells whether the *)
(* file ends in a newline.                                                 *)
(*                                                                         *)
(* Of an entry the model keeps the path and the model name, which are      *)
(* texts from the request (sequences of words, a newline among them), and  *)
(* the hash of the payload.  Method, time and counts are further fields,   *)
(* of which no property needs more than of these.                          *)
(***************************************************************************)
EXTENDS Naturals, Sequences, FiniteSets

CONSTANTS
    Entries,     \* what callers may append: records of a path, a model and a payload
    Long,        \* of them: those whose record is longer than the 4 MiB a reader takes
    MaxLines,    \* bound on the lines of the file
    MaxFaults,   \* bound on failed writes and failed syncs
    MaxCrashes   \* bound on process crashes and power losses

ASSUME BoundsAssumption ==
    /\ MaxLines \in Nat
    /\ MaxFaults \in Nat
    /\ MaxCrashes \in Nat

ASSUME LongAssumption == Long \subseteq Entries

VARIABLES
    file,        \* the lines of the log file, as any reader sees them
    terminated,  \* the file is empty or ends with a newline
    synced,      \* how many of the lines a completed fsync covers
    log,         \* the *Log of the running process: open, seq, lastHash
    inflight,    \* the record Append has written but not yet synced, or NoRecord
    acked,       \* history: the records whose Append returned without error
    faults,      \* how many writes and syncs have failed
    tailTorn,    \* history: a power loss has left a part of a record at the end
    crashes      \* how many times the process or the machine has stopped

vars == <<file, terminated, synced, log, inflight, acked, faults, tailTorn, crashes>>

-----------------------------------------------------------------------------
(* Records and the chain *)

genesisHash == <<>>

NL == "newline"

\* The fields of an entry with newlines between them.  Newlines inside a path or a model
\* name are not escaped, so that two entries may be joined to one text.
Joined(e) == e.path \o <<NL>> \o e.model \o <<NL, e.payload>>

\* SHA-256 is taken to be injective: the hash of a text is the text.  The number before
\* it and the hash behind it have no newline in them.
chainHash(seq, e, prev) == <<seq, Joined(e), prev>>

NewRecord(seq, e, prev) ==
    [seq |-> seq, entry |-> e, prev |-> prev, hash |-> chainHash(seq, e, prev)]

Corrupt  == [corrupt |-> TRUE]
NoRecord == [none |-> TRUE]

IsRecord(line) == line # Corrupt

LastHash(f) == IF f = <<>> THEN genesisHash ELSE f[Len(f)].hash
LastSeq(f)  == IF f = <<>> THEN 0 ELSE f[Len(f)].seq

\* Faulty: the verifier follows the links and does not recompute the hashes.
LinkOnly(f, i) ==
    /\ IsRecord(f[i])
    /\ f[i].seq = i
    /\ f[i].prev = IF i = 1 THEN genesisHash ELSE f[i - 1].hash

\* What Verify checks of line i: sequence number, link to the line before, own hash.
LinkOK(f, i) ==
    /\ IsRecord(f[i])
    /\ f[i].seq = i
    /\ f[i].prev = IF i = 1 THEN genesisHash ELSE f[i - 1].hash
    /\ f[i].hash = chainHash(f[i].seq, f[i].entry, f[i].prev)

ChainOK(f) == \A i \in 1..Len(f) : LinkOK(f, i)

\* The scanner of Open and Verify takes every line: it fails at one that is too long.
Takes(line) == IsRecord(line) => line.entry \notin Long
Scans(f) == \A i \in 1..Len(f) : Takes(f[i])

VerifyOK(f) == Scans(f) /\ ChainOK(f)

-----------------------------------------------------------------------------
(* The write system call *)

\* The line that starts where the file ends: a complete line of its own after a
\* newline, glued to the unterminated last line otherwise.
AddLine(f, nl, line) ==
    IF nl THEN Append(f, line) ELSE [f EXCEPT ![Len(f)] = Corrupt]

\* How much of a line a failed write left: none of it, a cut JSON text, or all but the newline.
Torn == {"none", "cut", "unterminated"}

AddTorn(f, nl, line, torn) ==
    CASE torn = "none" -> f
      [] torn = "cut" -> AddLine(f, nl, Corrupt)
      [] torn = "unterminated" -> AddLine(f, nl, line)

-----------------------------------------------------------------------------
Closed == [open |-> FALSE, seq |-> 0, lastHash |-> genesisHash]

Init ==
    /\ file = <<>>
    /\ terminated = TRUE
    /\ synced = 0
    /\ log = Closed
    /\ inflight = NoRecord
    /\ acked = {}
    /\ faults = 0
    /\ tailTorn = FALSE
    /\ crashes = 0

\* Faulty: the sequence number is recovered and the hash of the last record is not.
OpenForgetsHash ==
    /\ ~log.open
    /\ Scans(file) /\ \A i \in 1..Len(file) : IsRecord(file[i])
    /\ log' = [open |-> TRUE, seq |-> LastSeq(file), lastHash |-> genesisHash]
    /\ UNCHANGED <<file, terminated, synced, inflight, acked, faults, tailTorn, crashes>>

\* Open succeeds when every line can be read and parses; the chain itself is not
\* replayed.
Open ==
    /\ ~log.open
    /\ Scans(file) /\ \A i \in 1..Len(file) : IsRecord(file[i])
    /\ log' = [open |-> TRUE, seq |-> LastSeq(file), lastHash |-> LastHash(file)]
    /\ UNCHANGED <<file, terminated, synced, inflight, acked, faults, tailTorn, crashes>>

\* Faulty: the sequence number is read before it is advanced.
NextRecordLate(e) == NewRecord(log.seq, e, log.lastHash)

\* The record the running process would write next for entry e.
NextRecord(e) == NewRecord(log.seq + 1, e, log.lastHash)

CanAppend == log.open /\ inflight = NoRecord /\ Len(file) < MaxLines

\* Append: the whole line reaches the file.
Write(e) ==
    /\ CanAppend
    /\ file' = AddLine(file, terminated, NextRecord(e))
    /\ terminated' = TRUE
    /\ inflight' = NextRecord(e)
    /\ UNCHANGED <<synced, log, acked, faults, tailTorn, crashes>>

\* Append: the write fails part way and the error is returned; seq and lastHash stay.
WriteFails(e, torn) ==
    /\ CanAppend
    /\ faults < MaxFaults
    /\ file' = AddTorn(file, terminated, NextRecord(e), torn)
    /\ terminated' = (terminated /\ torn = "none")
    /\ faults' = faults + 1
    /\ UNCHANGED <<synced, log, inflight, acked, tailTorn, crashes>>

\* Faulty: Append returns without the fsync.
SyncSkipped ==
    /\ inflight # NoRecord
    /\ log' = [log EXCEPT !.seq = inflight.seq, !.lastHash = inflight.hash]
    /\ acked' = acked \cup {inflight}
    /\ inflight' = NoRecord
    /\ UNCHANGED <<file, terminated, synced, faults, tailTorn, crashes>>

\* Append: the fsync succeeds, the chain state advances and the record is returned.
Sync ==
    /\ inflight # NoRecord
    /\ synced' = Len(file)
    /\ log' = [log EXCEPT !.seq = inflight.seq, !.lastHash = inflight.hash]
    /\ acked' = acked \cup {inflight}
    /\ inflight' = NoRecord
    /\ UNCHANGED <<file, terminated, faults, tailTorn, crashes>>

\* Faulty: the error of the fsync is dropped and the record returned.
SyncFailsUnnoticed ==
    /\ inflight # NoRecord
    /\ faults < MaxFaults
    /\ log' = [log EXCEPT !.seq = inflight.seq, !.lastHash = inflight.hash]
    /\ acked' = acked \cup {inflight}
    /\ inflight' = NoRecord
    /\ faults' = faults + 1
    /\ UNCHANGED <<file, terminated, synced, tailTorn, crashes>>

\* Append: the fsync fails; the line stays in the file, seq and lastHash do not advance.
SyncFails ==
    /\ inflight # NoRecord
    /\ faults < MaxFaults
    /\ inflight' = NoRecord
    /\ faults' = faults + 1
    /\ UNCHANGED <<file, terminated, synced, log, acked, tailTorn, crashes>>

\* The process stops; what it wrote stays in the file.
Crash ==
    /\ log.open
    /\ crashes < MaxCrashes
    /\ log' = Closed
    /\ inflight' = NoRecord
    /\ crashes' = crashes + 1
    /\ UNCHANGED <<file, terminated, synced, acked, faults, tailTorn>>

\* The machine stops: lines no fsync covers may be lost.
PowerLoss(kept) ==
    /\ crashes < MaxCrashes
    /\ kept \in synced..Len(file)
    /\ file' = SubSeq(file, 1, kept)
    /\ terminated' = (terminated \/ kept < Len(file))
    /\ log' = Closed
    /\ inflight' = NoRecord
    /\ crashes' = crashes + 1
    /\ UNCHANGED <<synced, acked, faults, tailTorn>>

\* Of the first lost line a part may be there: a cut JSON text, which no reader takes, or
\* all but its newline, which Open takes for a record and Append then writes behind.
PowerLossTears(kept, torn) ==
    /\ crashes < MaxCrashes
    /\ kept \in synced..(Len(file) - 1)
    /\ torn # "none"
    /\ file' = AddTorn(SubSeq(file, 1, kept), TRUE, file[kept + 1], torn)
    /\ terminated' = FALSE
    /\ log' = Closed
    /\ inflight' = NoRecord
    /\ tailTorn' = TRUE
    /\ crashes' = crashes + 1
    /\ UNCHANGED <<synced, acked, faults>>

\* What the running process does, and what the machine may do to it.
Working ==
    \/ Open
    \/ \E e \in Entries : Write(e)
    \/ \E e \in Entries, torn \in Torn : WriteFails(e, torn)
    \/ Sync
    \/ SyncFails

Outage ==
    \/ \E kept \in 0..MaxLines : PowerLoss(kept)
    \/ \E kept \in 0..MaxLines, torn \in Torn : PowerLossTears(kept, torn)

Next == Working \/ Crash \/ Outage

Spec == Init /\ [][Next]_vars

-----------------------------------------------------------------------------
(* Properties *)

\* A line that parses is a record some Append has built.
WellFormed(line) ==
    /\ line.seq \in Nat \ {0}
    /\ line.entry \in Entries
    /\ line = NewRecord(line.seq, line.entry, line.prev)

\* The verifier's answer is only as good as the shape of the state: lines are
\* records or Corrupt, the counters stay in their ranges, and what is synced exists.
TypeOK ==
    /\ \A i \in 1..Len(file) : IsRecord(file[i]) => WellFormed(file[i])
    /\ terminated \in BOOLEAN
    /\ Len(file) \in 0..MaxLines
    /\ synced \in 0..Len(file)
    /\ log.open \in BOOLEAN /\ log.seq \in Nat
    /\ inflight # NoRecord => log.open /\ inflight.entry \in Entries
    /\ \A r \in acked : r.seq \in Nat \ {0} /\ r.entry \in Entries
    /\ faults \in 0..MaxFaults
    /\ tailTorn \in BOOLEAN
    /\ crashes \in 0..MaxCrashes

Spoilt(i) == file[i] = Corrupt

\* As long as no write or sync has failed, the log verifies at every moment, through any
\* process crash or power loss and any number of reopenings (Open recovers the chain
\* state from the last line, Append continues from it), up to the first line that is not
\* a record: such a line there is only where a power loss has torn the tail.  (A log no
\* reader takes, because Append wrote a record that is too long, is left out.)
ChainIntact ==
    faults = 0 /\ Scans(file) =>
        \A i \in 1..Len(file) :
            LinkOK(file, i) \/ (tailTorn /\ \E j \in 1..i : Spoilt(j))

\* As long as no write or sync has failed, a record whose Append returned is on stable
\* storage at the position its number names, whatever stops; or a power loss had torn
\* the tail before it was written, and the line that came of that is on stable storage
\* before its position, where every reader stops.
AckedDurable ==
    faults = 0 =>
        \A r \in acked :
            \/ r.seq <= synced /\ file[r.seq] = r
            \/ tailTorn /\ \E j \in 1..synced : j < r.seq /\ Spoilt(j)

\* Whatever has failed, a log that verifies holds every record whose Append ever
\* returned without error: Verify cannot pass over an acknowledged call.
VerifiedHoldsAcked ==
    VerifyOK(file) => \A r \in acked : r.seq <= Len(file) /\ file[r.seq] = r

\* Whatever has failed, a line an fsync covered is never changed or removed again.
SyncedForever ==
    [][ /\ synced <= synced'
        /\ Len(file') >= synced
        /\ \A i \in 1..synced : file'[i] = file[i] ]_vars

\* What an edit of one record makes of a log f.
Altered(f, i, e)  == [f EXCEPT ![i].entry = e]
Resealed(f, i, e) == [f EXCEPT ![i] = NewRecord(f[i].seq, e, f[i].prev)]
Swapped(f, i, j)  == [f EXCEPT ![i] = f[j], ![j] = f[i]]
Dropped(f, i)     == SubSeq(f, 1, i - 1) \o SubSeq(f, i + 1, Len(f))

\* The edits of record i a hash can tell: those that change the joined text.  Moving a
\* newline and what is around it from the path to the model name does not.
Edits(f, i) == {e \in Entries : Joined(e) # Joined(f[i].entry)}

\* A log that verifies stops verifying when one record is altered so that the joined text
\* changes, when two are exchanged, when a record other than the last is dropped, or when
\* a record other than the last is so altered and given the hash of its new content.
EditDetected ==
    VerifyOK(file) =>
        /\ \A i \in 1..Len(file) : \A e \in Edits(file, i) : ~VerifyOK(Altered(file, i, e))
        /\ \A i \in 1..(Len(file) - 1) : \A e \in Edits(file, i) : ~VerifyOK(Resealed(file, i, e))
        /\ \A i, j \in 1..Len(file) : i < j => ~VerifyOK(Swapped(file, i, j))
        /\ \A i \in 1..(Len(file) - 1) : ~VerifyOK(Dropped(file, i))

\* The promise the log makes to its callers, as an abstract append-only ledger:
\* its content is what is on stable storage, its acknowledgements are Append's.
EntryOf(line) == IF IsRecord(line) THEN line.entry ELSE Corrupt

Abstract == INSTANCE Ledger WITH
    ledger <- [i \in 1..synced |-> EntryOf(file[i])],
    confirmed <- {r.seq : r \in acked},
    intact <- faults = 0 /\ ~tailTorn

\* Every step of the log is a step of the ledger or leaves the ledger unchanged: a
\* completed fsync confirms, the first failure or torn tail ends the numbering, nothing is
\* taken back.
ImplementsLedger == Abstract!Spec

-----------------------------------------------------------------------------
(* A claim of the documentation that holds only in part *)

\* log.go:112: "Append writes one hash-chained record and fsyncs before returning".
\* A record that Append returned is a line of the log, whatever failed before it.
AckedRecorded == \A r \in acked : \E i \in 1..Len(file) : file[i] = r

=============================================================================
