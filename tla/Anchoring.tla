------------------------------ MODULE Anchoring ------------------------------
(***************************************************************************)
(* Anchoring of the audit log: internal/anchor/anchor.go, the Merkle root  *)
(* of internal/audit/merkle.go, and those who call it, the loop of the     *)
(* running gateway (cmd/sphragis/serve.go) and the command anchor now.     *)
(*                                                                         *)
(* An anchoring replays the log file line by line, as Verify does, while   *)
(* the gateway may be appending to it; asks the calendars to stamp the     *)
(* root of the payload hashes; and writes one proof file over the last.    *)
(* It holds no lock.  The process of the command outlives the gateway's.   *)
(*                                                                         *)
(* SHA-256 is taken to be injective: the hash of two nodes of 32 bytes is  *)
(* the pair of them.  Nothing else tells a leaf from an inner node.        *)
(***************************************************************************)
EXTENDS AuditLog

CONSTANT MaxAnchorings  \* bound on the anchorings begun

ASSUME AnchoringAssumption == MaxAnchorings \in Nat

Anchorers == {"loop", "now"}

VARIABLES
    at,          \* anchorer -> "idle", "reading" or "stamping"
    leaves,      \* anchorer -> the payload hashes of the lines it has replayed
    proof,       \* the root in the proof file, or NoProof
    anchorings,
    lost         \* history: an outage has changed lines of the log

anchoring == <<at, leaves, proof, anchorings, lost>>
anchoredVars == <<vars, anchoring>>

NoProof == <<>>

-----------------------------------------------------------------------------
(* The Merkle root *)

\* Faulty: a node without a partner is dropped.
PairDropsOdd(level) ==
    [i \in 1..(Len(level) \div 2) |-> <<level[2 * i - 1], level[2 * i]>>]

\* One level of the tree: an odd one duplicates its last node.
Pair(level) ==
    [i \in 1..((Len(level) + 1) \div 2) |->
        <<level[2 * i - 1], level[IF 2 * i <= Len(level) THEN 2 * i ELSE 2 * i - 1]>>]

Above(level) == IF Len(level) = 1 THEN level ELSE Pair(level)

\* The levels of the tree from the leaves up; the root is a level that stays.
Levels(nodes) ==
    LET level[k \in Nat] == IF k = 0 THEN nodes ELSE Above(level[k - 1])
    IN  level

MerkleRoot(nodes) == IF nodes = <<>> THEN NoProof ELSE Levels(nodes)[Len(nodes)][1]

PayloadHashes(f) == [i \in 1..Len(f) |-> f[i].entry.payload]

-----------------------------------------------------------------------------
(* An anchoring *)

Idle(a) ==
    /\ at' = [at EXCEPT ![a] = "idle"]
    /\ leaves' = [leaves EXCEPT ![a] = <<>>]

\* The loop ends with its gateway; the command needs none.
Begin(a) ==
    /\ at[a] = "idle" /\ anchorings < MaxAnchorings
    /\ (a = "loop") => log.open
    /\ at' = [at EXCEPT ![a] = "reading"]
    /\ anchorings' = anchorings + 1
    /\ UNCHANGED <<vars, leaves, proof, lost>>

NextLine(a) == Len(leaves[a]) + 1

\* Line i is there and its newline too.
Ended(i) == i < Len(file) \/ (i = Len(file) /\ terminated)

\* Faulty: the lines are collected newest first, as for the page that lists them.
ReadNewestFirst(a) ==
    /\ at[a] = "reading" /\ Ended(NextLine(a))
    /\ Takes(file[NextLine(a)]) /\ LinkOK(file, NextLine(a))
    /\ leaves' = [leaves EXCEPT ![a] = <<file[NextLine(a)].entry.payload>> \o @]
    /\ UNCHANGED <<vars, at, proof, anchorings, lost>>

\* Verify: one more complete line, which follows from those before.
ReadLine(a) ==
    /\ at[a] = "reading" /\ Ended(NextLine(a))
    /\ Takes(file[NextLine(a)]) /\ LinkOK(file, NextLine(a))
    /\ leaves' = [leaves EXCEPT ![a] = Append(@, file[NextLine(a)].entry.payload)]
    /\ UNCHANGED <<vars, at, proof, anchorings, lost>>

\* Verify: at the end of a file without a newline, what follows the last one is a line.
ReadTail(a) ==
    /\ at[a] = "reading"
    /\ NextLine(a) = Len(file) /\ ~terminated
    /\ Takes(file[NextLine(a)]) /\ LinkOK(file, NextLine(a))
    /\ leaves' = [leaves EXCEPT ![a] = Append(@, file[NextLine(a)].entry.payload)]
    /\ at' = [at EXCEPT ![a] = "stamping"]
    /\ UNCHANGED <<vars, proof, anchorings, lost>>

\* RootDigest: the log ends here and has records.
EndOfLog(a) ==
    /\ at[a] = "reading" /\ leaves[a] # <<>>
    /\ NextLine(a) > Len(file)
    /\ at' = [at EXCEPT ![a] = "stamping"]
    /\ UNCHANGED <<vars, leaves, proof, anchorings, lost>>

\* A line that fails the verification, is too long or is seen half written, an empty log, calendars
\* that do not answer in time: nothing is written.
GivesUp(a) ==
    /\ at[a] # "idle"
    /\ Idle(a)
    /\ UNCHANGED <<vars, proof, anchorings, lost>>

WriteProof(a) ==
    /\ at[a] = "stamping"
    /\ proof' = MerkleRoot(leaves[a])
    /\ Idle(a)
    /\ UNCHANGED <<vars, anchorings, lost>>

\* The old proof is truncated before the new one is written.
WriteProofFails(a) ==
    /\ at[a] = "stamping"
    /\ proof' = NoProof
    /\ Idle(a)
    /\ UNCHANGED <<vars, anchorings, lost>>

-----------------------------------------------------------------------------
(* The log underneath *)

LogWorks == Working /\ UNCHANGED anchoring

GatewayStops ==
    /\ Crash
    /\ Idle("loop")
    /\ UNCHANGED <<proof, anchorings, lost>>

MachineStops ==
    /\ Outage
    /\ at' = [a \in Anchorers |-> "idle"]
    /\ leaves' = [a \in Anchorers |-> <<>>]
    /\ lost' = (lost \/ file' # file)
    /\ UNCHANGED <<proof, anchorings>>

AnchoredInit ==
    /\ Init
    /\ at = [a \in Anchorers |-> "idle"]
    /\ leaves = [a \in Anchorers |-> <<>>]
    /\ proof = NoProof
    /\ anchorings = 0
    /\ lost = FALSE

AnchoredNext ==
    \/ LogWorks \/ GatewayStops \/ MachineStops
    \/ \E a \in Anchorers :
          \/ Begin(a) \/ ReadLine(a) \/ ReadTail(a) \/ EndOfLog(a)
          \/ GivesUp(a) \/ WriteProof(a) \/ WriteProofFails(a)

AnchoredSpec == AnchoredInit /\ [][AnchoredNext]_anchoredVars

-----------------------------------------------------------------------------
(* Properties *)

\* README.md:90 says of the root "so you can later prove the log existed at a point in
\* time": a log that verifies has a first part whose root is the one in the proof,
\* whatever was appended, failed or restarted since, and although the replay ran
\* while lines were written.  An outage that takes unsynced lines takes that away.
ProofStaysProvable ==
    proof # NoProof /\ ~lost /\ VerifyOK(file) =>
        \E k \in 1..Len(file) : MerkleRoot(PayloadHashes(SubSeq(file, 1, k))) = proof

\* Two lists of hashes that agree as far as both go and have the same members: those of
\* [a,b,c] and [a,b,c,c], of which merkle.go makes one root.
Alike(s, t) ==
    /\ \A i \in 1..Len(s) : i <= Len(t) => s[i] = t[i]
    /\ \A i \in 1..Len(s) : \E j \in 1..Len(t) : s[i] = t[j]
    /\ \A j \in 1..Len(t) : \E i \in 1..Len(s) : t[j] = s[i]

BodyHashes == {e.payload : e \in Entries}

\* What may stand as the payload hash of a record in a log whose numbers and hashes have
\* been made anew: besides those of bodies, the hash of any two nodes of this log.  (Verify
\* and pairHash take any text there.  Texts that are not 64 lower-case digits are left out:
\* pairHash makes one hash of several of them.)
LeafHashes(nodes) ==
    BodyHashes \cup
    UNION {{Levels(nodes)[k][i] : i \in 1..Len(Levels(nodes)[k])} : k \in 0..Len(nodes)}

Leaves(n, hashes) == UNION {[1..k -> hashes] : k \in 1..n}

\* The proof of a log tells it from every other log whose payload hashes look like hashes,
\* also from one that has been made anew and verifies, but for final records that repeat
\* the payload of others, and for a log of another height: the payload hashes of the one
\* are then the nodes of one level of the other's tree (pairHash and Verify do not tell them
\* from leaves), so that in one of the two they are not hashes of bodies.
ProofTellsLogsApart ==
    LET own == PayloadHashes(file) IN
    file # <<>> /\ VerifyOK(file) /\ proof = MerkleRoot(own) =>
        \A other \in Leaves(MaxLines + 1, LeafHashes(own)) : MerkleRoot(other) = proof =>
            \/ Alike(own, other)
            \/ /\ Len(other) < Len(own)
               /\ \E k \in 1..Len(own) : Alike(other, Levels(own)[k])
            \/ /\ Len(other) > Len(own)
               /\ \E k \in 1..Len(other) : Alike(own, Levels(other)[k])

=============================================================================
