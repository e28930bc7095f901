-------------------------- MODULE AnchoringProofs --------------------------
(***************************************************************************)
(* Proofs about the anchoring of the audit log, for every set of entries   *)
(* and all bounds: that it leaves the log to its own promises, that a      *)
(* proof once written can be used as long as the log verifies, and what    *)
(* the root of a log tells of it.                                          *)
(***************************************************************************)
EXTENDS Anchoring, AuditLogProofs, WellFoundedInduction

-----------------------------------------------------------------------------
(* The log underneath *)

\* An anchoring only reads: every step of the whole is a step of the log or leaves the
\* log as it is.
LEMMA AnchoredStepIsLogStep == [AnchoredNext]_anchoredVars => [Next]_vars
<1> SUFFICES ASSUME AnchoredNext PROVE Next \/ UNCHANGED vars
  BY DEF anchoredVars
<1>1. CASE LogWorks
  BY <1>1 DEF LogWorks, Next
<1>2. CASE GatewayStops
  BY <1>2 DEF GatewayStops, Next
<1>3. CASE MachineStops
  BY <1>3 DEF MachineStops, Next
<1>4. ASSUME NEW a \in Anchorers,
             \/ Begin(a) \/ ReadLine(a) \/ ReadTail(a) \/ EndOfLog(a)
             \/ GivesUp(a) \/ WriteProof(a) \/ WriteProofFails(a)
      PROVE  UNCHANGED vars
  BY <1>4, Zenon DEF Begin, ReadLine, ReadTail, EndOfLog, GivesUp, WriteProof, WriteProofFails
<1> QED
  BY <1>1, <1>2, <1>3, <1>4, Zenon DEF AnchoredNext

\* The log under anchoring is the log of AuditLog.tla.
THEOREM AnchoredLogIsLog == AnchoredSpec => Spec
<1>1. AnchoredInit => Init
  BY DEF AnchoredInit
<1> QED
  BY <1>1, AnchoredStepIsLogStep, PTL DEF AnchoredSpec, Spec

\* Whoever anchors it and whenever, the log keeps all it promises (log.go, verify.go).
THEOREM AnchoredLogKeepsPromises ==
    AnchoredSpec => /\ [](TypeOK /\ ChainIntact /\ AckedDurable)
                    /\ [](EditDetected /\ VerifiedHoldsAcked)
                    /\ SyncedForever /\ ImplementsLedger
BY AnchoredLogIsLog, TypeCorrect, ChainStaysIntact, AckedStaysDurable, EditsAreDetected,
   VerifiedLogIsComplete, SyncedLinesStay, LogImplementsLedger, PTL

-----------------------------------------------------------------------------
(* What an anchoring has read stays what the log says.  The lines it read may *)
(* since have been spoilt, by a record glued to the last of them: a line is   *)
(* what was read or is broken, and broken it stays.                           *)

AnchoringTypes ==
    /\ leaves \in [Anchorers -> Seq(BodyHashes)]
    /\ lost \in BOOLEAN

Covers(ls) ==
    /\ Len(ls) <= Len(file)
    /\ \A i \in 1..Len(ls) : IsRecord(file[i]) => file[i].entry.payload = ls[i]

ReadingsStand == ~lost => \A a \in Anchorers : Covers(leaves[a])

ProofStands ==
    ~lost /\ proof # NoProof =>
        \E ls \in Seq(BodyHashes) : ls # <<>> /\ Covers(ls) /\ proof = MerkleRoot(ls)

AInv == AnchoringTypes /\ ReadingsStand /\ ProofStands

\* What a step does to the lines there are.
KeepsLines ==
    /\ Len(file) <= Len(file')
    /\ \A i \in 1..Len(file) : IsRecord(file'[i]) => file'[i] = file[i]

\* A line that is added is a line of its own or spoils the last one.
LEMMA AddLineKeepsLines ==
    ASSUME IInv, NEW x, file' = AddLine(file, terminated, x)
    PROVE  KeepsLines
<1>1. /\ Len(file) \in Nat
      /\ Len(file') = IF terminated THEN Len(file) + 1 ELSE Len(file)
      /\ file'[Len(file')] = IF terminated THEN x ELSE Corrupt
      /\ \A i \in 1..(Len(file') - 1) : file'[i] = file[i]
  BY AddLineEffect DEF IInv, TypeOK, Shape
<1> QED
  BY <1>1 DEF KeepsLines, IsRecord

\* The working process and its crash change no line into another record.
LEMMA WorkingKeepsLines ==
    ASSUME IInv, Working \/ Crash
    PROVE  KeepsLines
<1>1. file' = file => KeepsLines
  BY DEF KeepsLines, IInv, Shape, IsSeq
<1>2. CASE Open \/ Sync \/ SyncFails \/ Crash
  BY <1>1, <1>2 DEF Open, Sync, SyncFails, Crash
<1>3. ASSUME NEW e \in Entries, Write(e) PROVE KeepsLines
  BY <1>3, AddLineKeepsLines DEF Write
<1>4. ASSUME NEW e \in Entries, NEW torn \in Torn, WriteFails(e, torn) PROVE KeepsLines
  <2>1. file' = file \/ \E line : file' = AddLine(file, terminated, line)
    BY <1>4 DEF WriteFails, AddTorn, Torn
  <2> QED
    BY <1>1, <2>1, AddLineKeepsLines
<1> QED
  BY <1>2, <1>3, <1>4 DEF Working

\* What was covered is covered after such a step.
LEMMA CoversKept ==
    ASSUME IInv, KeepsLines \/ file' = file, NEW ls \in Seq(BodyHashes), Covers(ls)
    PROVE  Covers(ls)'
<1>1. Len(ls) \in Nat /\ Len(file) \in Nat
  BY DEF IInv, TypeOK
<1> QED
  BY <1>1 DEF Covers, KeepsLines

LEMMA KeptAInv ==
    ASSUME IInv, AInv, KeepsLines \/ file' = file, UNCHANGED <<proof, lost>>,
           AnchoringTypes', \A a \in Anchorers : leaves'[a] = leaves[a] \/ leaves'[a] = <<>>
    PROVE  AInv'
<1>1. Covers(<<>>)'
  BY DEF Covers, KeepsLines, IInv, TypeOK
<1>2. \A a \in Anchorers : leaves[a] \in Seq(BodyHashes)
  BY DEF AInv, AnchoringTypes
<1>3. ReadingsStand'
  <2> SUFFICES ASSUME ~lost, NEW a \in Anchorers PROVE Covers(leaves[a])'
    BY DEF ReadingsStand
  <2>1. Covers(leaves[a])
    BY DEF AInv, ReadingsStand
  <2>2. CASE leaves'[a] = leaves[a]
    <3>1. PICK ls \in Seq(BodyHashes) : ls = leaves[a]
      BY <1>2
    <3>2. Covers(ls)'
      BY <2>1, <3>1, CoversKept
    <3> QED
      BY <2>2, <3>1, <3>2 DEF Covers
  <2>3. CASE leaves'[a] = <<>>
    BY <1>1, <2>3 DEF Covers
  <2> QED
    BY <2>2, <2>3
<1>4. ProofStands'
  <2> SUFFICES ASSUME ~lost, proof # NoProof
               PROVE  \E ls \in Seq(BodyHashes) : ls # <<>> /\ Covers(ls)' /\ proof = MerkleRoot(ls)
    BY DEF ProofStands
  <2>1. PICK ls \in Seq(BodyHashes) : ls # <<>> /\ Covers(ls) /\ proof = MerkleRoot(ls)
    BY DEF AInv, ProofStands
  <2> QED
    BY <2>1, CoversKept
<1> QED
  BY <1>3, <1>4 DEF AInv

\* A replay takes one more line as it stands.
LEMMA ReadAInv ==
    ASSUME IInv, AInv, NEW a \in Anchorers, ReadLine(a) \/ ReadTail(a)
    PROVE  AInv'
<1> DEFINE ls == leaves[a]
           line == file[Len(ls) + 1]
<1>1. ls \in Seq(BodyHashes) /\ Len(ls) \in Nat /\ Len(file) \in Nat
  BY DEF AInv, AnchoringTypes, IInv, TypeOK
<1>2. Len(ls) + 1 \in 1..Len(file) /\ IsRecord(line)
  BY <1>1 DEF ReadLine, ReadTail, Ended, NextLine, LinkOK
<1>3. line.entry.payload \in BodyHashes
  BY <1>2 DEF IInv, TypeOK, WellFormed, BodyHashes
<1>4. /\ leaves' = [leaves EXCEPT ![a] = Append(ls, line.entry.payload)]
      /\ UNCHANGED <<vars, proof, lost>>
  BY DEF ReadLine, ReadTail, NextLine
<1> HIDE DEF line
<1>5. /\ Append(ls, line.entry.payload) \in Seq(BodyHashes)
      /\ Len(Append(ls, line.entry.payload)) = Len(ls) + 1
      /\ \A i \in 1..Len(ls) : Append(ls, line.entry.payload)[i] = ls[i]
      /\ Append(ls, line.entry.payload)[Len(ls) + 1] = line.entry.payload
  BY <1>1, <1>3, AppendProperties
<1>6. AnchoringTypes'
  BY <1>4, <1>5 DEF AInv, AnchoringTypes
<1>7. ReadingsStand'
  <2> SUFFICES ASSUME ~lost, NEW b \in Anchorers PROVE Covers(leaves[b])'
    BY <1>4 DEF ReadingsStand
  <2>1. Covers(leaves[b]) /\ Covers(ls)
    BY DEF AInv, ReadingsStand
  <2>2. CASE b # a
    BY <1>4, <2>1, <2>2 DEF Covers, vars, AInv, AnchoringTypes
  <2>3. CASE b = a
    <3>1. leaves'[b] = Append(ls, line.entry.payload) /\ file' = file
      BY <1>4, <2>3 DEF vars, AInv, AnchoringTypes
    <3>2. \A i \in 1..(Len(ls) + 1) : IsRecord(file[i]) =>
             file[i].entry.payload = Append(ls, line.entry.payload)[i]
      <4> SUFFICES ASSUME NEW i \in 1..(Len(ls) + 1), IsRecord(file[i])
                   PROVE  file[i].entry.payload = Append(ls, line.entry.payload)[i]
        OBVIOUS
      <4>1. CASE i = Len(ls) + 1
        BY <1>5, <4>1 DEF line
      <4>2. CASE i # Len(ls) + 1
        BY <1>1, <1>5, <2>1, <4>2 DEF Covers
      <4> QED
        BY <4>1, <4>2
    <3> QED
      BY <1>1, <1>2, <1>5, <3>1, <3>2 DEF Covers
  <2> QED
    BY <2>2, <2>3
<1>8. ProofStands'
  BY <1>4 DEF AInv, ProofStands, Covers, vars
<1> QED
  BY <1>6, <1>7, <1>8 DEF AInv

\* What is written is the root of lines that stand.
LEMMA WriteProofAInv ==
    ASSUME IInv, AInv, NEW a \in Anchorers, WriteProof(a)
    PROVE  AInv'
<1>1. leaves[a] \in Seq(BodyHashes)
  BY DEF AInv, AnchoringTypes
<1>2. /\ leaves' = [leaves EXCEPT ![a] = <<>>]
      /\ proof' = MerkleRoot(leaves[a])
      /\ UNCHANGED <<vars, lost>>
  BY DEF WriteProof, Idle
<1>3. AnchoringTypes'
  BY <1>2 DEF AInv, AnchoringTypes
<1>4. ReadingsStand'
  BY <1>2 DEF AInv, ReadingsStand, AnchoringTypes, Covers, vars, IInv, TypeOK
<1>5. leaves[a] = <<>> => proof' = NoProof
  BY <1>2 DEF MerkleRoot
<1>6. ProofStands'
  BY <1>1, <1>2, <1>5 DEF AInv, ReadingsStand, ProofStands, Covers, vars
<1> QED
  BY <1>3, <1>4, <1>6 DEF AInv

\* An outage either leaves the file as it is or is recorded as one that did not.
LEMMA MachineStopsAInv ==
    ASSUME IInv, AInv, MachineStops
    PROVE  AInv'
<1>1. /\ leaves' = [a \in Anchorers |-> <<>>]
      /\ lost' = (lost \/ file' # file)
      /\ proof' = proof
  BY DEF MachineStops
<1>2. AnchoringTypes'
  BY <1>1 DEF AInv, AnchoringTypes
<1>3. CASE lost'
  BY <1>2, <1>3 DEF AInv, ReadingsStand, ProofStands
<1>4. CASE ~lost'
  <2>1. ~lost /\ lost' = lost /\ file' = file
    BY <1>1, <1>4 DEF AInv, AnchoringTypes
  <2> QED
    BY <1>1, <1>2, <2>1, KeptAInv
<1> QED
  BY <1>3, <1>4

LEMMA AnchoredStepAInv == IInv /\ AInv /\ [AnchoredNext]_anchoredVars => AInv'
<1> SUFFICES ASSUME IInv, AInv, [AnchoredNext]_anchoredVars PROVE AInv'
  OBVIOUS
<1>1. CASE UNCHANGED anchoredVars
  BY <1>1, KeptAInv DEF anchoredVars, anchoring, vars, AInv, AnchoringTypes
<1>2. CASE LogWorks
  BY <1>2, KeptAInv, WorkingKeepsLines DEF LogWorks, anchoring, AInv, AnchoringTypes
<1>3. CASE GatewayStops
  <2>1. leaves' = [leaves EXCEPT !["loop"] = <<>>] /\ UNCHANGED <<proof, lost>>
    BY <1>3 DEF GatewayStops, Idle
  <2>2. KeepsLines
    BY <1>3, WorkingKeepsLines DEF GatewayStops
  <2>3. AnchoringTypes'
    <3>1. leaves \in [Anchorers -> Seq(BodyHashes)] /\ lost \in BOOLEAN /\ <<>> \in Seq(BodyHashes)
      BY DEF AInv, AnchoringTypes
    <3> QED
      BY <2>1, <3>1 DEF AnchoringTypes
  <2>4. \A a \in Anchorers : leaves'[a] = leaves[a] \/ leaves'[a] = <<>>
    BY <2>1 DEF AInv, AnchoringTypes
  <2> QED
    BY <2>1, <2>2, <2>3, <2>4, KeptAInv
<1>4. CASE MachineStops
  BY <1>4, MachineStopsAInv
<1>5. ASSUME NEW a \in Anchorers, ReadLine(a) \/ ReadTail(a) PROVE AInv'
  BY <1>5, ReadAInv
<1>6. ASSUME NEW a \in Anchorers, WriteProof(a) PROVE AInv'
  BY <1>6, WriteProofAInv
<1>7. ASSUME NEW a \in Anchorers, Begin(a) \/ EndOfLog(a) PROVE AInv'
  BY <1>7, KeptAInv DEF Begin, EndOfLog, vars, AInv, AnchoringTypes
<1>8. ASSUME NEW a \in Anchorers, GivesUp(a) PROVE AInv'
  <2>1. leaves' = [leaves EXCEPT ![a] = <<>>] /\ UNCHANGED <<vars, proof, lost>>
    BY <1>8 DEF GivesUp, Idle
  <2> QED
    BY <2>1, KeptAInv DEF vars, AInv, AnchoringTypes
<1>9. ASSUME NEW a \in Anchorers, WriteProofFails(a) PROVE AInv'
  <2>1. /\ leaves' = [leaves EXCEPT ![a] = <<>>]
        /\ proof' = NoProof /\ UNCHANGED <<vars, lost>>
    BY <1>9 DEF WriteProofFails, Idle
  <2>2. AnchoringTypes'
    BY <2>1 DEF AInv, AnchoringTypes
  <2>3. ReadingsStand' /\ ProofStands'
    BY <2>1 DEF AInv, ReadingsStand, ProofStands, AnchoringTypes, Covers, vars, IInv, TypeOK
  <2> QED
    BY <2>2, <2>3 DEF AInv
<1> QED
  BY <1>1, <1>2, <1>3, <1>4, <1>5, <1>6, <1>7, <1>8, <1>9, Zenon DEF AnchoredNext

THEOREM AnchoringInvariance == AnchoredSpec => [](IInv /\ AInv)
<1>1. AnchoredInit => AInv
  <2> SUFFICES ASSUME AnchoredInit PROVE AInv
    OBVIOUS
  <2>1. /\ leaves = [a \in Anchorers |-> <<>>]
        /\ lost = FALSE /\ proof = NoProof /\ file = <<>>
    BY DEF AnchoredInit, Init
  <2>2. AnchoringTypes
    <3>1. <<>> \in Seq(BodyHashes)
      OBVIOUS
    <3> QED
      BY <2>1, <3>1 DEF AnchoringTypes
  <2>3. ReadingsStand /\ ProofStands
    BY <2>1 DEF ReadingsStand, ProofStands, Covers
  <2> QED
    BY <2>2, <2>3 DEF AInv
<1> QED
  BY <1>1, AnchoredStepAInv, AnchoredLogIsLog, Invariance, PTL DEF AnchoredSpec

\* The lines that were read are the entries of a beginning of a log that verifies.
LEMMA CoveredBeginning ==
    ASSUME IInv, VerifyOK(file), NEW ls \in Seq(BodyHashes), Covers(ls)
    PROVE  PayloadHashes(SubSeq(file, 1, Len(ls))) = ls
<1> DEFINE f == SubSeq(file, 1, Len(ls))
<1>1. Len(ls) \in 0..Len(file) /\ Len(file) \in Nat
  BY DEF Covers, IInv, TypeOK
<1>2. Len(f) = Len(ls) /\ \A i \in 1..Len(ls) : f[i] = file[i]
  BY <1>1, KeepLines DEF IInv, Shape
<1>3. \A i \in 1..Len(ls) : file[i].entry.payload = ls[i]
  BY <1>1 DEF Covers, VerifyOK, ChainOK, LinkOK
<1> QED
  BY <1>2, <1>3 DEF PayloadHashes

\* A proof in the file is the root of a beginning of the log as long as the log
\* verifies, whatever was appended or failed and whoever else anchored, unless an
\* outage took lines (anchor.go, Stamp).
THEOREM ProofsStayProvable == AnchoredSpec => []ProofStaysProvable
<1>1. IInv /\ AInv => ProofStaysProvable
  <2> SUFFICES ASSUME IInv, AInv, proof # NoProof, ~lost, VerifyOK(file)
               PROVE  \E k \in 1..Len(file) :
                          MerkleRoot(PayloadHashes(SubSeq(file, 1, k))) = proof
    BY DEF ProofStaysProvable
  <2>1. PICK ls \in Seq(BodyHashes) : ls # <<>> /\ Covers(ls) /\ proof = MerkleRoot(ls)
    BY DEF AInv, ProofStands
  <2>2. Len(ls) \in 1..Len(file)
    BY <2>1 DEF Covers, IInv, TypeOK
  <2> QED
    BY <2>1, <2>2, CoveredBeginning
<1> QED
  BY <1>1, AnchoringInvariance, PTL


-----------------------------------------------------------------------------
(* Induction.  The library's theorems for it take an operator; here a set of   *)
(* numbers takes its place.                                                    *)

LEMMA LeastNumber ==
    ASSUME NEW T, T \subseteq Nat, T # {}
    PROVE  \E m \in T : \A k \in T : m <= k
<1> DEFINE R == OpToRel(<, Nat)
<1>1. \A k \in Nat : \A j \in Nat : k < j => <<k, j>> \in R
  BY DEF OpToRel
<1> HIDE DEF R
<1>2. IsWellFoundedOn(R, Nat)
  BY NatLessThanWellFounded DEF R
<1>3. PICK m \in T : \A k \in T : <<k, m>> \notin R
  BY <1>2, WFMin
<1>4. ASSUME NEW k \in T PROVE m <= k
  <2>1. m \in Nat /\ k \in Nat
    OBVIOUS
  <2>2. ~(k < m)
    BY <1>1, <1>3, <2>1
  <2> QED
    BY <2>1, <2>2
<1> QED
  BY <1>4

LEMMA Induction ==
    ASSUME NEW T, 0 \in T, \A n \in Nat : n \in T => n + 1 \in T
    PROVE  Nat \subseteq T
<1> SUFFICES ASSUME Nat \ T # {} PROVE FALSE
  OBVIOUS
<1>1. PICK m \in Nat \ T : \A k \in Nat \ T : m <= k
  BY LeastNumber
<1>2. m # 0 /\ m - 1 \in Nat /\ m - 1 \in T
  BY <1>1
<1> QED
  BY <1>1, <1>2

-----------------------------------------------------------------------------
(* The levels of a tree are what their recursive definition says.  For each    *)
(* height there is a function that follows the recursion so far; two of them   *)
(* agree where both are defined.                                               *)

ClimbsTo(nodes, g, n) ==
    /\ g[0] = nodes
    /\ \A k \in 1..n : g[k] = Above(g[k - 1])

LEMMA ClimbsExist ==
    ASSUME NEW nodes
    PROVE  \A n \in Nat : \E g : ClimbsTo(nodes, g, n)
<1> DEFINE T == {n \in Nat : \E g : ClimbsTo(nodes, g, n)}
<1>1. 0 \in T
  <2>1. ClimbsTo(nodes, [k \in {0} |-> nodes], 0)
    BY DEF ClimbsTo
  <2> QED
    BY <2>1
<1>2. ASSUME NEW n \in Nat, n \in T PROVE n + 1 \in T
  <2>1. PICK g : ClimbsTo(nodes, g, n)
    BY <1>2
  <2> DEFINE h == [k \in 0..(n + 1) |-> IF k = n + 1 THEN Above(g[n]) ELSE g[k]]
  <2>2. ClimbsTo(nodes, h, n + 1)
    BY <2>1 DEF ClimbsTo
  <2> QED
    BY <2>2
<1> HIDE DEF T
<1>3. Nat \subseteq T
  BY <1>1, <1>2, Induction
<1> QED
  BY <1>3 DEF T

LEMMA ClimbsAgree ==
    ASSUME NEW nodes, NEW g, NEW h, NEW m \in Nat, NEW n \in Nat, m <= n,
           ClimbsTo(nodes, g, m), ClimbsTo(nodes, h, n)
    PROVE  g[m] = h[m]
<1> DEFINE T == {k \in Nat : k <= m => g[k] = h[k]}
<1>1. 0 \in T
  BY DEF ClimbsTo
<1>2. ASSUME NEW k \in Nat, k \in T PROVE k + 1 \in T
  BY <1>2 DEF ClimbsTo
<1> HIDE DEF T
<1>3. Nat \subseteq T
  BY <1>1, <1>2, Induction
<1> QED
  BY <1>3 DEF T

LEMMA LevelsRecursion ==
    ASSUME NEW nodes
    PROVE  /\ Levels(nodes)[0] = nodes
           /\ \A k \in Nat : Levels(nodes)[k + 1] = Above(Levels(nodes)[k])
<1> DEFINE G(k) == CHOOSE g : ClimbsTo(nodes, g, k)
           F == [k \in Nat |-> G(k)[k]]
<1>1. \A k \in Nat : ClimbsTo(nodes, G(k), k)
  BY ClimbsExist
<1> HIDE DEF G
<1>2. F[0] = nodes
  BY <1>1 DEF ClimbsTo
<1>3. ASSUME NEW k \in Nat \ {0} PROVE F[k] = Above(F[k - 1])
  <2>1. ClimbsTo(nodes, G(k), k) /\ ClimbsTo(nodes, G(k - 1), k - 1) /\ k - 1 \in Nat
    BY <1>1
  <2>2. G(k - 1)[k - 1] = G(k)[k - 1]
    BY <2>1, ClimbsAgree
  <2>3. G(k)[k] = Above(G(k)[k - 1])
    BY <2>1 DEF ClimbsTo
  <2> QED
    BY <2>1, <2>2, <2>3
<1>4. F = [k \in Nat |-> IF k = 0 THEN nodes ELSE Above(F[k - 1])]
  BY <1>2, <1>3
<1> HIDE DEF F
<1>5. Levels(nodes) = CHOOSE f : f = [k \in Nat |-> IF k = 0 THEN nodes ELSE Above(f[k - 1])]
  BY DEF Levels, Above
<1>6. Levels(nodes) = [k \in Nat |-> IF k = 0 THEN nodes ELSE Above(Levels(nodes)[k - 1])]
  BY <1>4, <1>5
<1>7. ASSUME NEW k \in Nat PROVE Levels(nodes)[k + 1] = Above(Levels(nodes)[k])
  BY <1>6
<1>8. Levels(nodes)[0] = nodes
  BY <1>6
<1> QED
  BY <1>7, <1>8

-----------------------------------------------------------------------------
(* One level and the next *)

\* A level has half the nodes, and of each both parts are nodes below.
LEMMA PairProperties ==
    ASSUME NEW S, NEW s \in Seq(S)
    PROVE  /\ Pair(s) \in Seq(S \X S)
           /\ Len(Pair(s)) = (Len(s) + 1) \div 2
           /\ \A i \in 1..Len(Pair(s)) :
                 /\ 2 * i - 1 \in 1..Len(s)
                 /\ Pair(s)[i][1] = s[2 * i - 1]
                 /\ Pair(s)[i][2] = s[IF 2 * i <= Len(s) THEN 2 * i ELSE 2 * i - 1]
<1> DEFINE n == (Len(s) + 1) \div 2
           second(i) == IF 2 * i <= Len(s) THEN 2 * i ELSE 2 * i - 1
<1>1. Len(s) \in Nat /\ n \in Nat /\ \A i \in 1..Len(s) : s[i] \in S
  OBVIOUS
<1>2. \A i \in 1..n : 2 * i - 1 \in 1..Len(s) /\ second(i) \in 1..Len(s)
  BY <1>1
<1>3. Pair(s) = [i \in 1..n |-> <<s[2 * i - 1], s[second(i)]>>]
  BY DEF Pair
<1> HIDE DEF n, second
<1>4. \A i \in 1..n : <<s[2 * i - 1], s[second(i)]>> \in S \X S
  BY <1>1, <1>2
<1>5. Pair(s) \in Seq(S \X S) /\ Len(Pair(s)) = n
  BY <1>1, <1>3, <1>4
<1> QED
  BY <1>2, <1>3, <1>5 DEF n, second

LEMMA Halves ==
    ASSUME NEW m \in Nat \ {0}, NEW n \in Nat \ {0}, m <= n
    PROVE  /\ (m + 1) \div 2 \in Nat \ {0}
           /\ m > 1 => (m + 1) \div 2 + 1 <= m
           /\ (m + 1) \div 2 <= (n + 1) \div 2
OBVIOUS

\* After as many levels as there are leaves one node is left.
LevelShape(level, k, n) ==
    /\ \E S : level \in Seq(S)
    /\ Len(level) \in Nat \ {0}
    /\ Len(level) = 1 \/ Len(level) + k <= n

LEMMA ShapeAbove ==
    ASSUME NEW low, NEW k \in Nat, NEW n \in Nat, LevelShape(low, k, n)
    PROVE  /\ LevelShape(Above(low), k + 1, n)
           /\ Len(Above(low)) = IF Len(low) = 1 THEN 1 ELSE (Len(low) + 1) \div 2
<1>1. Len(low) \in Nat \ {0} /\ (Len(low) = 1 \/ Len(low) + k <= n)
  BY DEF LevelShape
<1>2. PICK S : low \in Seq(S)
  BY DEF LevelShape
<1>3. CASE Len(low) = 1
  <2>1. Above(low) = low
    BY <1>3 DEF Above
  <2> QED
    BY <1>2, <1>3, <2>1 DEF LevelShape
<1>4. CASE Len(low) # 1
  <2>1. Above(low) = Pair(low)
    BY <1>4 DEF Above
  <2>2. Above(low) \in Seq(S \X S) /\ Len(Above(low)) = (Len(low) + 1) \div 2
    BY <1>2, <2>1, PairProperties
  <2> DEFINE half == (Len(low) + 1) \div 2
  <2>3. half \in Nat \ {0} /\ half + 1 <= Len(low) /\ Len(Above(low)) = half
    <3>1. PICK m \in Nat \ {0} : m = Len(low)
      BY <1>1
    <3>2. m > 1
      BY <1>4, <3>1
    <3> QED
      BY <2>2, <3>1, <3>2, Halves
  <2> HIDE DEF half
  <2>4. Len(Above(low)) \in Nat \ {0} /\ Len(Above(low)) + (k + 1) <= n
    BY <1>1, <1>4, <2>3
  <2> QED
    BY <1>4, <2>2, <2>4 DEF LevelShape
<1> QED
  BY <1>3, <1>4

LEMMA LevelsShape ==
    ASSUME NEW S, NEW p \in Seq(S), p # <<>>
    PROVE  \A k \in Nat : LevelShape(Levels(p)[k], k, Len(p))
<1> DEFINE T == {k \in Nat : LevelShape(Levels(p)[k], k, Len(p))}
<1>1. Len(p) \in Nat \ {0}
  BY EmptySeq
<1>2. 0 \in T
  <2>1. Levels(p)[0] = p
    BY LevelsRecursion
  <2>2. LevelShape(p, 0, Len(p))
    BY <1>1 DEF LevelShape
  <2> QED
    BY <2>1, <2>2
<1>3. ASSUME NEW k \in Nat, k \in T PROVE k + 1 \in T
  <2>1. LevelShape(Above(Levels(p)[k]), k + 1, Len(p))
    BY <1>1, <1>3, ShapeAbove
  <2> QED
    BY <2>1, LevelsRecursion
<1> HIDE DEF T
<1>4. Nat \subseteq T
  BY <1>2, <1>3, Induction
<1> QED
  BY <1>4 DEF T

\* A level of one node stays.
LEMMA RootStays ==
    ASSUME NEW p, NEW d \in Nat, Len(Levels(p)[d]) = 1, NEW n \in Nat, d <= n
    PROVE  Levels(p)[n] = Levels(p)[d]
<1> DEFINE root == Levels(p)[d]
           T == {k \in Nat : k >= d => Levels(p)[k] = root}
<1>1. 0 \in T
  BY DEF root
<1>2. ASSUME NEW k \in Nat, k \in T PROVE k + 1 \in T
  <2> SUFFICES ASSUME k + 1 >= d PROVE Levels(p)[k + 1] = root
    OBVIOUS
  <2>1. CASE k >= d
    <3>1. Levels(p)[k] = root
      BY <1>2, <2>1
    <3>2. Levels(p)[k + 1] = Above(root)
      BY <3>1, LevelsRecursion
    <3> QED
      BY <3>2 DEF Above
  <2>2. CASE ~(k >= d)
    <3>1. k + 1 = d
      BY <2>2
    <3> QED
      BY <3>1
  <2> QED
    BY <2>1, <2>2
<1> HIDE DEF T
<1>3. Nat \subseteq T
  BY <1>1, <1>2, Induction
<1> QED
  BY <1>3 DEF T

\* The height of a tree: the first level that is one node, the root.
IsHeight(p, d) ==
    /\ Len(Levels(p)[d]) = 1
    /\ \A k \in Nat : Len(Levels(p)[k]) = 1 => d <= k

LEMMA HeightExists ==
    ASSUME NEW S, NEW p \in Seq(S), p # <<>>
    PROVE  \E d \in 0..Len(p) : IsHeight(p, d) /\ MerkleRoot(p) = Levels(p)[d][1]
<1> DEFINE T == {k \in Nat : Len(Levels(p)[k]) = 1}
<1>1. Len(p) \in Nat \ {0}
  BY EmptySeq
<1>2. Len(p) \in T
  <2>1. LevelShape(Levels(p)[Len(p)], Len(p), Len(p))
    BY <1>1, LevelsShape
  <2> DEFINE l == Len(Levels(p)[Len(p)])
  <2>2. l \in Nat \ {0} /\ (l = 1 \/ l + Len(p) <= Len(p))
    BY <2>1 DEF LevelShape
  <2> HIDE DEF l
  <2>3. l = 1
    BY <1>1, <2>2
  <2> QED
    BY <1>1, <2>3 DEF l
<1>3. PICK d \in T : \A k \in T : d <= k
  <2>1. T \subseteq Nat /\ T # {}
    BY <1>2
  <2> HIDE DEF T
  <2> QED
    BY <2>1, LeastNumber
<1>4. d \in 0..Len(p) /\ IsHeight(p, d)
  BY <1>1, <1>2, <1>3 DEF IsHeight
<1>5. Levels(p)[Len(p)] = Levels(p)[d]
  BY <1>1, <1>4, RootStays DEF IsHeight
<1> QED
  BY <1>4, <1>5 DEF MerkleRoot

LEMMA NarrowerAbove ==
    ASSUME NEW m \in Nat \ {0}, NEW n \in Nat \ {0}, m <= n
    PROVE  (IF m = 1 THEN 1 ELSE (m + 1) \div 2) <= (IF n = 1 THEN 1 ELSE (n + 1) \div 2)
<1> DEFINE a == (m + 1) \div 2
           b == (n + 1) \div 2
<1>1. a \in Nat /\ b \in Nat /\ a <= b /\ 1 <= b
  BY Halves
<1> HIDE DEF a, b
<1>2. (IF m = 1 THEN 1 ELSE a) <= (IF n = 1 THEN 1 ELSE b)
  BY <1>1
<1> QED
  BY <1>2 DEF a, b

\* The tree of a shorter log is at every height no wider.
LEMMA ShorterIsNarrower ==
    ASSUME NEW S, NEW p \in Seq(S), p # <<>>, NEW q \in Seq(S), q # <<>>,
           Len(p) <= Len(q)
    PROVE  \A k \in Nat : Len(Levels(p)[k]) <= Len(Levels(q)[k])
<1> DEFINE T == {k \in Nat : Len(Levels(p)[k]) <= Len(Levels(q)[k])}
<1>1. 0 \in T
  BY LevelsRecursion
<1>2. ASSUME NEW k \in Nat, k \in T PROVE k + 1 \in T
  <2>1. PICK s, t : s = Levels(p)[k] /\ t = Levels(q)[k]
    OBVIOUS
  <2>2. LevelShape(s, k, Len(p)) /\ LevelShape(t, k, Len(q)) /\ Len(s) <= Len(t)
    BY <1>2, <2>1, LevelsShape
  <2>3. Len(p) \in Nat /\ Len(q) \in Nat
    OBVIOUS
  <2>4. /\ Len(Above(s)) = IF Len(s) = 1 THEN 1 ELSE (Len(s) + 1) \div 2
        /\ Len(Above(t)) = IF Len(t) = 1 THEN 1 ELSE (Len(t) + 1) \div 2
    BY <2>2, <2>3, ShapeAbove
  <2>5. Len(s) \in Nat \ {0} /\ Len(t) \in Nat \ {0}
    BY <2>2 DEF LevelShape
  <2>6. Len(Above(s)) <= Len(Above(t))
    BY <2>2, <2>4, <2>5, NarrowerAbove
  <2>7. Levels(p)[k + 1] = Above(s) /\ Levels(q)[k + 1] = Above(t)
    BY <2>1, LevelsRecursion
  <2> QED
    BY <2>6, <2>7
<1> HIDE DEF T
<1>3. Nat \subseteq T
  BY <1>1, <1>2, Induction
<1> QED
  BY <1>3 DEF T

\* And no higher.
LEMMA ShorterIsLower ==
    ASSUME NEW S, NEW p \in Seq(S), p # <<>>, NEW q \in Seq(S), q # <<>>,
           Len(p) <= Len(q), NEW d \in Nat, NEW e \in Nat, IsHeight(p, d), IsHeight(q, e)
    PROVE  d <= e
<1> DEFINE l == Len(Levels(p)[e])
<1>1. l <= 1
  BY ShorterIsNarrower DEF IsHeight
<1>2. l \in Nat \ {0}
  BY LevelsShape DEF LevelShape
<1> HIDE DEF l
<1>3. l = 1
  BY <1>1, <1>2
<1> QED
  BY <1>3 DEF IsHeight, l

-----------------------------------------------------------------------------
(* What a root tells of the leaves.  Going down from two equal roots, the      *)
(* levels of the one tree are like those of the other, until the lower of the  *)
(* two has come to its leaves.                                                 *)

LEMMA AlikeAtTop ==
    ASSUME NEW s, NEW t, Len(s) = 1, Len(t) = 1, s[1] = t[1]
    PROVE  Alike(s, t)
<1>1. \A i \in 1..1 : i = 1
  OBVIOUS
<1> QED
  BY <1>1 DEF Alike

LEMMA AlikeTurned == \A s, t : Alike(s, t) => Alike(t, s)
<1> TAKE s, t
<1> SUFFICES ASSUME Alike(s, t) PROVE Alike(t, s)
  OBVIOUS
<1>1. \A i \in 1..Len(t) : i <= Len(s) => t[i] = s[i]
  <2> SUFFICES ASSUME NEW i \in 1..Len(t), i <= Len(s) PROVE t[i] = s[i]
    OBVIOUS
  <2>1. Len(s) \in Nat \/ Len(s) \notin Nat
    OBVIOUS
  <2> QED
    BY DEF Alike
<1> QED
  BY <1>1 DEF Alike

FoundIn(t, s) == \A i \in 1..Len(t) : \E j \in 1..Len(s) : t[i] = s[j]

\* The parts of pairs that are found among other pairs are found among their parts.
LEMMA MembersBelow ==
    ASSUME NEW S, NEW s \in Seq(S), NEW S2, NEW t \in Seq(S2), FoundIn(Pair(t), Pair(s))
    PROVE  FoundIn(t, s)
<1> SUFFICES \A i \in 1..Len(t) : \E j \in 1..Len(s) : t[i] = s[j]
  BY DEF FoundIn
<1> DEFINE u == Pair(s)
           w == Pair(t)
<1>1. Len(s) \in Nat /\ Len(t) \in Nat
  OBVIOUS
<1>2. /\ Len(u) = (Len(s) + 1) \div 2
      /\ \A i \in 1..Len(u) :
            /\ 2 * i - 1 \in 1..Len(s)
            /\ u[i][1] = s[2 * i - 1]
            /\ u[i][2] = s[IF 2 * i <= Len(s) THEN 2 * i ELSE 2 * i - 1]
  BY PairProperties
<1>3. /\ Len(w) = (Len(t) + 1) \div 2
      /\ \A i \in 1..Len(w) :
            /\ 2 * i - 1 \in 1..Len(t)
            /\ w[i][1] = t[2 * i - 1]
            /\ w[i][2] = t[IF 2 * i <= Len(t) THEN 2 * i ELSE 2 * i - 1]
  BY PairProperties
<1>4. \A i \in 1..Len(w) : \E j \in 1..Len(u) : w[i] = u[j]
  BY DEF FoundIn
<1> HIDE DEF u, w
<1> TAKE i \in 1..Len(t)
<1> DEFINE h == (i + 1) \div 2
<1>5. h \in 1..Len(w) /\ (i = 2 * h - 1 \/ (i = 2 * h /\ 2 * h <= Len(t)))
  BY <1>1, <1>3
<1>6. t[i] = w[h][1] \/ t[i] = w[h][2]
  BY <1>3, <1>5
<1>7. PICK j \in 1..Len(u) : w[h] = u[j]
  BY <1>4, <1>5
<1>8. 2 * j - 1 \in 1..Len(s) /\ (2 * j <= Len(s) => 2 * j \in 1..Len(s))
  BY <1>1, <1>2
<1> QED
  BY <1>2, <1>6, <1>7, <1>8

LEMMA AlikeBelow ==
    ASSUME NEW S, NEW s \in Seq(S), NEW S2, NEW t \in Seq(S2), Alike(Pair(s), Pair(t))
    PROVE  Alike(s, t)
<1>1. FoundIn(t, s)
  <2>1. FoundIn(Pair(t), Pair(s))
    BY Zenon DEF Alike, FoundIn
  <2> QED
    BY <2>1, MembersBelow
<1>2. FoundIn(s, t)
  <2>1. FoundIn(Pair(s), Pair(t))
    BY Zenon DEF Alike, FoundIn
  <2> QED
    BY <2>1, MembersBelow
<1> DEFINE u == Pair(s)
           w == Pair(t)
<1>3. Len(s) \in Nat /\ Len(t) \in Nat
  OBVIOUS
<1>4. /\ Len(u) = (Len(s) + 1) \div 2
      /\ \A i \in 1..Len(u) :
            /\ u[i][1] = s[2 * i - 1]
            /\ u[i][2] = s[IF 2 * i <= Len(s) THEN 2 * i ELSE 2 * i - 1]
  BY PairProperties
<1>5. /\ Len(w) = (Len(t) + 1) \div 2
      /\ \A i \in 1..Len(w) :
            /\ w[i][1] = t[2 * i - 1]
            /\ w[i][2] = t[IF 2 * i <= Len(t) THEN 2 * i ELSE 2 * i - 1]
  BY PairProperties
<1>6. \A i \in 1..Len(u) : i <= Len(w) => u[i] = w[i]
  BY DEF Alike
<1> HIDE DEF u, w
<1>7. ASSUME NEW i \in 1..Len(s), i <= Len(t) PROVE s[i] = t[i]
  <2>1. CASE i % 2 = 1
    <3> DEFINE h == (i + 1) \div 2
    <3>1. h \in Nat /\ i = 2 * h - 1
      BY <2>1
    <3> HIDE DEF h
    <3>2. h \in 1..Len(u) /\ h <= Len(w) /\ h \in 1..Len(w)
      BY <1>3, <1>4, <1>5, <1>7, <3>1
    <3> QED
      BY <1>4, <1>5, <1>6, <3>1, <3>2
  <2>2. CASE i % 2 = 0
    <3> DEFINE h == i \div 2
    <3>1. /\ h \in 1..Len(u) /\ h <= Len(w) /\ h \in 1..Len(w) /\ i = 2 * h
          /\ 2 * h <= Len(s) /\ 2 * h <= Len(t)
      BY <1>3, <1>4, <1>5, <1>7, <2>2
    <3> QED
      BY <1>4, <1>5, <1>6, <3>1
  <2> QED
    BY <2>1, <2>2
<1> QED
  BY <1>1, <1>2, <1>7, Zenon DEF Alike, FoundIn

\* Equal roots: the leaves of the shorter log are like a level of the other's tree, and like
\* its leaves when the trees are of one height.
LEMMA RootTells ==
    ASSUME NEW S, NEW p \in Seq(S), p # <<>>, NEW q \in Seq(S), q # <<>>,
           Len(p) <= Len(q), MerkleRoot(p) = MerkleRoot(q)
    PROVE  \/ Alike(p, q)
           \/ Len(p) < Len(q) /\ \E k \in 1..Len(q) : Alike(p, Levels(q)[k])
<1>1. Len(p) \in Nat /\ Len(q) \in Nat
  OBVIOUS
<1>2. PICK d \in 0..Len(p) : IsHeight(p, d) /\ MerkleRoot(p) = Levels(p)[d][1]
  BY HeightExists
<1>3. PICK e \in 0..Len(q) : IsHeight(q, e) /\ MerkleRoot(q) = Levels(q)[e][1]
  BY HeightExists
<1>4. d \in Nat /\ e \in Nat /\ d <= e
  BY <1>1, <1>2, <1>3, ShorterIsLower
<1> DEFINE T == {j \in Nat : j <= d => Alike(Levels(p)[d - j], Levels(q)[e - j])}
<1>5. 0 \in T
  <2>1. Alike(Levels(p)[d], Levels(q)[e])
    BY <1>2, <1>3, AlikeAtTop DEF IsHeight
  <2>2. d - 0 = d /\ e - 0 = e
    BY <1>4
  <2> QED
    BY <2>1, <2>2
<1>6. ASSUME NEW j \in Nat, j \in T PROVE j + 1 \in T
  <2> SUFFICES ASSUME j + 1 <= d
               PROVE  Alike(Levels(p)[d - (j + 1)], Levels(q)[e - (j + 1)])
    OBVIOUS
  <2>1. PICK k \in Nat : k = d - (j + 1)
    BY <1>4
  <2>2. PICK m \in Nat : m = e - (j + 1)
    BY <1>4
  <2>3. k + 1 = d - j /\ m + 1 = e - j /\ j <= d /\ ~(d <= k) /\ ~(e <= m)
    BY <1>4, <2>1, <2>2
  <2>4. PICK s, t : s = Levels(p)[k] /\ t = Levels(q)[m]
    OBVIOUS
  <2>5. Len(s) # 1 /\ Len(t) # 1
    BY <1>2, <1>3, <2>3, <2>4 DEF IsHeight
  <2>6. Levels(p)[k + 1] = Pair(s) /\ Levels(q)[m + 1] = Pair(t)
    BY <2>4, <2>5, LevelsRecursion DEF Above
  <2>7. Alike(Pair(s), Pair(t))
    BY <1>6, <2>3, <2>6
  <2>8. (\E R : s \in Seq(R)) /\ (\E R : t \in Seq(R))
    BY <2>4, LevelsShape DEF LevelShape
  <2>9. Alike(s, t)
    BY <2>7, <2>8, AlikeBelow
  <2> QED
    BY <2>1, <2>2, <2>4, <2>9
<1> HIDE DEF T
<1>7. Nat \subseteq T
  BY <1>5, <1>6, Induction
<1>8. Alike(Levels(p)[d - d], Levels(q)[e - d])
  BY <1>4, <1>7 DEF T
<1>9. Alike(p, Levels(q)[e - d])
  <2>1. d - d = 0
    BY <1>4
  <2> QED
    BY <1>8, <2>1, LevelsRecursion
<1>10. CASE d = e
  <2>1. e - d = 0
    BY <1>4, <1>10
  <2> QED
    BY <1>9, <2>1, LevelsRecursion
<1>11. CASE d # e
  <2>1. e - d \in 1..Len(q)
    BY <1>1, <1>2, <1>3, <1>4, <1>11
  <2>2. Len(p) # Len(q)
    <3> SUFFICES ASSUME Len(p) = Len(q) PROVE FALSE
      OBVIOUS
    <3>1. Len(q) <= Len(p)
      BY <1>1
    <3>2. e <= d
      BY <1>2, <1>3, <1>4, <3>1, ShorterIsLower
    <3> QED
      BY <1>4, <1>11, <3>2
  <2> QED
    BY <1>1, <1>9, <2>1, <2>2
<1> QED
  BY <1>10, <1>11

\* The proof of a log is not the proof of another one whose payload hashes look like
\* hashes, also of one that has been made anew and verifies, but for final records that
\* repeat the payload of others (merkle.go: the last node is duplicated on an odd count)
\* and for logs of different heights, of which the payload hashes of the one are the nodes
\* of a level above the other's.
THEOREM ProofsTellLogsApart == AnchoredSpec => []ProofTellsLogsApart
<1>1. IInv => ProofTellsLogsApart
  <2> DEFINE own == PayloadHashes(file)
             H == LeafHashes(own)
  <2> SUFFICES ASSUME IInv, file # <<>>, VerifyOK(file), proof = MerkleRoot(own),
                      NEW other \in Leaves(MaxLines + 1, H), MerkleRoot(other) = proof
               PROVE  \/ Alike(own, other)
                      \/ /\ Len(other) < Len(own)
                         /\ \E k \in 1..Len(own) : Alike(other, Levels(own)[k])
                      \/ /\ Len(other) > Len(own)
                         /\ \E k \in 1..Len(other) : Alike(own, Levels(other)[k])
    BY DEF ProofTellsLogsApart
  <2>1. Len(file) \in Nat \ {0} /\ Len(file) <= MaxLines
    BY DEF IInv, TypeOK, Shape, IsSeq
  <2>2. \A i \in 1..Len(file) : file[i].entry.payload \in H
    BY DEF IInv, TypeOK, WellFormed, VerifyOK, ChainOK, LinkOK, LeafHashes, BodyHashes
  <2>3. PICK k \in 1..(MaxLines + 1) : other \in [1..k -> H]
    BY DEF Leaves
  <2> HIDE DEF H
  <2>4. own \in Seq(H) /\ own # <<>>
    BY <2>1, <2>2 DEF PayloadHashes
  <2>5. other \in Seq(H) /\ other # <<>>
    BY <2>3, BoundsAssumption
  <2> HIDE DEF own
  <2>6. CASE Len(own) <= Len(other)
    BY <2>4, <2>5, <2>6, RootTells
  <2>7. CASE Len(other) <= Len(own)
    BY <2>4, <2>5, <2>7, RootTells, AlikeTurned
  <2>8. Len(own) <= Len(other) \/ Len(other) <= Len(own)
    BY <2>4, <2>5
  <2> QED
    BY <2>6, <2>7, <2>8
<1> QED
  BY <1>1, AnchoringInvariance, PTL

=============================================================================
