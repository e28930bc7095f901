--------------------------- MODULE AuditLogProofs ---------------------------
(***************************************************************************)
(* Proofs about the audit log for every set of entries and all bounds.     *)
(***************************************************************************)
EXTENDS AuditLog, SequencesExt, SequenceTheorems, TLAPS

IsSeq(f) == \E S : f \in Seq(S)

\* Appending a line to a log.
LEMMA AppendLine ==
    ASSUME NEW f, IsSeq(f), NEW x
    PROVE  /\ IsSeq(Append(f, x))
           /\ Len(f) \in Nat
           /\ Len(Append(f, x)) = Len(f) + 1
           /\ Append(f, x)[Len(f) + 1] = x
           /\ \A i \in 1..Len(f) : Append(f, x)[i] = f[i]
<1>1. PICK S : f \in Seq(S)
  BY DEF IsSeq
<1>2. f \in Seq(S \cup {x}) /\ x \in S \cup {x}
  BY <1>1
<1>3. Append(f, x) \in Seq(S \cup {x})
  BY <1>2
<1> QED
  BY <1>2, <1>3 DEF IsSeq

\* Overwriting the last line of a log.
LEMMA SpoilLine ==
    ASSUME NEW f, IsSeq(f), Len(f) > 0, NEW x
    PROVE  /\ IsSeq([f EXCEPT ![Len(f)] = x])
           /\ Len([f EXCEPT ![Len(f)] = x]) = Len(f)
           /\ [f EXCEPT ![Len(f)] = x][Len(f)] = x
           /\ \A i \in 1..(Len(f) - 1) : [f EXCEPT ![Len(f)] = x][i] = f[i]
<1>1. PICK S : f \in Seq(S)
  BY DEF IsSeq
<1>2. f \in Seq(S \cup {x}) /\ Len(f) \in 1..Len(f)
  BY <1>1
<1>3. /\ [f EXCEPT ![Len(f)] = x] \in Seq(S \cup {x})
      /\ Len([f EXCEPT ![Len(f)] = x]) = Len(f)
      /\ \A j \in 1..Len(f) : [f EXCEPT ![Len(f)] = x][j] = IF j = Len(f) THEN x ELSE f[j]
  BY <1>2, ExceptSeq
<1>4. IsSeq([f EXCEPT ![Len(f)] = x])
  BY <1>3, Zenon DEF IsSeq
<1>5. Len(f) \in Nat
  BY <1>1
<1> QED
  BY <1>2, <1>3, <1>4, <1>5

\* A beginning of a log.
LEMMA KeepLines ==
    ASSUME NEW f, IsSeq(f), NEW n \in 0..Len(f)
    PROVE  /\ IsSeq(SubSeq(f, 1, n))
           /\ Len(SubSeq(f, 1, n)) = n
           /\ \A i \in 1..n : SubSeq(f, 1, n)[i] = f[i]
<1>1. PICK S : f \in Seq(S)
  BY DEF IsSeq
<1>2. SubSeq(f, 1, n) \in Seq(S) /\ Len(SubSeq(f, 1, n)) = n
  BY <1>1, SubSeqProperties
<1> QED
  BY <1>1, <1>2, SubSeqProperties DEF IsSeq

\* One write starting where the file ends.
LEMMA AddLineEffect ==
    ASSUME NEW f, IsSeq(f), NEW nl \in BOOLEAN, ~nl => Len(f) > 0, NEW x
    PROVE  /\ IsSeq(AddLine(f, nl, x))
           /\ Len(f) \in Nat
           /\ Len(AddLine(f, nl, x)) = IF nl THEN Len(f) + 1 ELSE Len(f)
           /\ AddLine(f, nl, x)[Len(AddLine(f, nl, x))] = IF nl THEN x ELSE Corrupt
           /\ \A i \in 1..(Len(AddLine(f, nl, x)) - 1) : AddLine(f, nl, x)[i] = f[i]
<1>1. CASE nl
  BY <1>1, AppendLine DEF AddLine
<1>2. CASE ~nl
  <2>1. Len(f) \in Nat
    BY DEF IsSeq
  <2> QED
    BY <1>2, <2>1, SpoilLine DEF AddLine
<1> QED
  BY <1>1, <1>2

\* A record is never the corrupt line and never no record, whatever it records.
LEMMA RecordDistinct ==
    \A s, e, p : IsRecord(NewRecord(s, e, p)) /\ NewRecord(s, e, p) # NoRecord
<1> TAKE s, e, p
<1>1. "seq" \in DOMAIN NewRecord(s, e, p) /\ "seq" \notin DOMAIN Corrupt
  BY DEF NewRecord, Corrupt
<1>2. "seq" \notin DOMAIN NoRecord
  BY DEF NoRecord
<1> QED
  BY <1>1, <1>2 DEF IsRecord

-----------------------------------------------------------------------------
(* The inductive invariant.  TypeOK and the shape of the file come first; an  *)
(* unterminated line is never one an fsync covers, so what is synced stays.   *)

Shape ==
    /\ IsSeq(file)
    /\ ~terminated => synced < Len(file)
    /\ log = [open |-> log.open, seq |-> log.seq, lastHash |-> log.lastHash]

\* The last line is the record between its write and its sync, or spoilt.
InflightLast ==
    inflight # NoRecord =>
        /\ inflight = NextRecord(inflight.entry)
        /\ terminated
        /\ synced < Len(file)
        /\ file[Len(file)] = inflight \/ file[Len(file)] = Corrupt

\* An acknowledged record stands at its place on stable storage, or a line on
\* stable storage shows Verify that the log is broken.
AckedOrBroken ==
    \A r \in acked :
        \/ r.seq \in 1..synced /\ file[r.seq] = r
        \/ \E i \in 1..synced : ~LinkOK(file, i)

\* Some line is not a record.
SomeSpoilt == \E j \in 1..Len(file) : Spoilt(j)

\* Without failed writes and syncs only a torn tail spoils a line.  Up to the first
\* spoilt line the chain is whole; with none the running process continues it, and with
\* one its records are numbered beyond that line.
Clean ==
    faults = 0 =>
        /\ ~tailTorn => terminated /\ ~SomeSpoilt
        /\ \A i \in 1..Len(file) : LinkOK(file, i) \/ \E j \in 1..i : Spoilt(j)
        /\ ~SomeSpoilt /\ log.open /\ inflight = NoRecord =>
              log.seq = Len(file) /\ log.lastHash = LastHash(file)
        /\ ~SomeSpoilt /\ inflight # NoRecord =>
              Len(file) = log.seq + 1 /\ file[Len(file)] = inflight
        /\ SomeSpoilt /\ log.open => \E j \in 1..Len(file) : j <= log.seq /\ Spoilt(j)

\* Without failed writes and syncs an acknowledged record is at its place, or behind a
\* spoilt line on stable storage.
AckedInPlace ==
    faults = 0 =>
        \A r \in acked :
            \/ r.seq \in 1..synced /\ file[r.seq] = r
            \/ \E j \in 1..synced : j < r.seq /\ Spoilt(j)

IInv == TypeOK /\ Shape /\ InflightLast /\ AckedOrBroken /\ Clean /\ AckedInPlace

-----------------------------------------------------------------------------
(* Type correctness *)

\* The empty log satisfies the invariant.
LEMMA InitIInv == Init => IInv
<1> SUFFICES ASSUME Init PROVE IInv
  OBVIOUS
<1>1. file \in Seq({}) /\ Len(file) = 0
  BY DEF Init
<1>2. IsSeq(file)
  BY <1>1, Zenon DEF IsSeq
<1>3. TypeOK
  <2>1. \A i \in 1..Len(file) : IsRecord(file[i]) => WellFormed(file[i])
    BY <1>1
  <2>2. \A r \in acked : r.seq \in Nat \ {0} /\ r.entry \in Entries
    BY DEF Init
  <2>3. faults = 0 /\ crashes = 0 /\ synced = 0 /\ ~log.open /\ log.seq = 0
    BY DEF Init, Closed
  <2>4. /\ terminated \in BOOLEAN /\ tailTorn \in BOOLEAN /\ log.open \in BOOLEAN
        /\ inflight # NoRecord => log.open /\ inflight.entry \in Entries
    BY DEF Init, Closed
  <2>5. /\ Len(file) \in 0..MaxLines /\ faults \in 0..MaxFaults /\ crashes \in 0..MaxCrashes
        /\ synced \in 0..Len(file) /\ log.seq \in Nat
    BY <1>1, <2>3, BoundsAssumption
  <2> QED
    BY <2>1, <2>2, <2>4, <2>5, Zenon DEF TypeOK
<1>4. Shape
  BY <1>2 DEF Init, Shape, Closed
<1>5. InflightLast /\ AckedOrBroken /\ Clean /\ AckedInPlace
  BY <1>1 DEF Init, InflightLast, AckedOrBroken, Clean, AckedInPlace, SomeSpoilt, Closed
<1> QED
  BY <1>3, <1>4, <1>5 DEF IInv

\* What is synced and unchanged is checked alike before and after.
LEMMA LinksKept ==
    ASSUME NEW f, NEW g, NEW n \in Nat, \A i \in 1..n : g[i] = f[i]
    PROVE  \A i \in 1..n : LinkOK(g, i) <=> LinkOK(f, i)
<1> TAKE i \in 1..n
<1>1. g[i] = f[i]
  OBVIOUS
<1>2. CASE i = 1
  BY <1>1, <1>2 DEF LinkOK
<1>3. CASE i # 1
  <2>1. g[i - 1] = f[i - 1]
    BY <1>3
  <2> QED
    BY <1>1, <1>3, <2>1 DEF LinkOK
<1> QED
  BY <1>2, <1>3

\* An acknowledged record stays where it is, and a break stays a break, as long
\* as the synced lines stay.
LEMMA AckedKept ==
    ASSUME TypeOK, AckedOrBroken, synced' = synced, acked' = acked,
           \A i \in 1..synced : file'[i] = file[i]
    PROVE  AckedOrBroken' /\ (AckedInPlace /\ (faults' = 0 => faults = 0) => AckedInPlace')
<1>1. synced \in Nat
  BY DEF TypeOK
<1>2. \A i \in 1..synced : LinkOK(file', i) <=> LinkOK(file, i)
  BY <1>1, LinksKept
<1>3. AckedOrBroken'
  BY <1>1, <1>2 DEF AckedOrBroken
<1>4. AckedInPlace /\ (faults' = 0 => faults = 0) => AckedInPlace'
  BY <1>1 DEF AckedInPlace, Spoilt
<1> QED
  BY <1>3, <1>4

\* Open recovers the end of the chain, from which Clean lets the next record go on.
LEMMA OpenIInv == IInv /\ Open => IInv'
<1> SUFFICES ASSUME IInv, Open PROVE IInv'
  OBVIOUS
<1> USE DEF IInv
<1>1. Len(file) \in Nat /\ \A i \in 1..Len(file) : IsRecord(file[i])
  BY DEF TypeOK, Open
<1>2. (file = <<>>) <=> (Len(file) = 0)
  BY DEF Shape, IsSeq
<1>3. LastSeq(file) \in Nat
  <2>1. CASE file = <<>>
    BY <2>1 DEF LastSeq
  <2>2. CASE file # <<>>
    BY <1>1, <1>2, <2>2 DEF LastSeq, TypeOK, WellFormed
  <2> QED
    BY <2>1, <2>2
<1>4. TypeOK'
  BY <1>3 DEF TypeOK, Open
<1>5. Shape' /\ InflightLast'
  BY DEF Shape, InflightLast, Open, TypeOK
<1>6. AckedOrBroken' /\ AckedInPlace'
  BY AckedKept DEF Open
<1>7. ~SomeSpoilt /\ ~SomeSpoilt'
  BY <1>1 DEF SomeSpoilt, Spoilt, IsRecord, Open
<1>9. faults = 0 => LastSeq(file) = Len(file)
  BY <1>1, <1>2, <1>7 DEF Clean, SomeSpoilt, LastSeq, LinkOK
<1>8. Clean'
  BY <1>7, <1>9 DEF Clean, Open, LinkOK, IsRecord, TypeOK, Spoilt
<1> QED
  BY <1>4, <1>5, <1>6, <1>8

\* A written record is linked to the last line when it starts a line of its own; glued to
\* an unterminated line, it makes that line Corrupt, and the log no longer verifies.
LEMMA WriteIInv == ASSUME IInv, NEW e \in Entries, Write(e) PROVE IInv'
<1> USE DEF IInv
<1> DEFINE r == NextRecord(e)
<1>1. /\ IsSeq(file') /\ Len(file) \in Nat
      /\ Len(file') = IF terminated THEN Len(file) + 1 ELSE Len(file)
      /\ file'[Len(file')] = IF terminated THEN r ELSE Corrupt
      /\ \A i \in 1..(Len(file') - 1) : file'[i] = file[i]
  BY AddLineEffect DEF Write, TypeOK, Shape
<1>2. r.seq = log.seq + 1 /\ r.entry = e /\ WellFormed(r)
  BY DEF NextRecord, NewRecord, WellFormed, TypeOK
<1>3. synced < Len(file')
  BY <1>1 DEF TypeOK, Shape
<1>4. TypeOK'
  <2>1. ASSUME NEW i \in 1..Len(file'), IsRecord(file'[i])
        PROVE  WellFormed(file'[i])
    <3>1. CASE i = Len(file')
      BY <1>1, <1>2, <2>1, <3>1 DEF TypeOK, IsRecord
    <3>2. CASE i # Len(file')
      <4>1. i \in 1..Len(file) /\ file'[i] = file[i]
        BY <1>1, <3>2
      <4> QED
        BY <2>1, <4>1 DEF TypeOK
    <3> QED
      BY <3>1, <3>2
  <2>2. Len(file') \in 0..MaxLines /\ synced' \in 0..Len(file')
    BY <1>1, BoundsAssumption DEF Write, CanAppend, TypeOK
  <2> QED
    BY <1>2, <2>1, <2>2 DEF TypeOK, Write, CanAppend
<1>5. Shape'
  BY <1>1 DEF Shape, Write
<1>6. InflightLast'
  BY <1>1, <1>2, <1>3 DEF InflightLast, Write, NextRecord, TypeOK
<1>7. AckedOrBroken' /\ AckedInPlace'
  BY <1>1, <1>3, AckedKept DEF Write, TypeOK
<1>8. Clean'
  <2> SUFFICES ASSUME faults = 0 PROVE Clean'
    BY DEF Clean, Write
  <2>0. /\ log' = log /\ log.open /\ inflight = NoRecord /\ tailTorn' = tailTorn /\ terminated'
        /\ inflight' = r /\ inflight' # NoRecord
    BY RecordDistinct DEF Write, CanAppend, NextRecord
  <2>1. \A i \in 1..Len(file) :
           (LinkOK(file', i) \/ \E j \in 1..i : Spoilt(j)') \/ (~terminated /\ i = Len(file))
    <3> SUFFICES ASSUME NEW i \in 1..Len(file), terminated \/ i # Len(file)
                 PROVE  LinkOK(file', i) \/ \E j \in 1..i : Spoilt(j)'
      OBVIOUS
    <3>1. i \in Nat /\ \A j \in 1..i : file'[j] = file[j]
      BY <1>1
    <3>2. LinkOK(file', i) <=> LinkOK(file, i)
      BY <3>1, LinksKept
    <3> QED
      BY <3>1, <3>2 DEF Clean, Spoilt
  <2>2. CASE ~terminated
    <3>1. ~SomeSpoilt => log.seq = Len(file)
      BY <2>0 DEF Clean
    <3>2. Len(file') = Len(file) /\ Len(file) \in 1..Len(file) /\ Spoilt(Len(file))'
      BY <1>1, <2>2 DEF Shape, TypeOK, Spoilt
    <3>3. SomeSpoilt'
      BY <3>2 DEF SomeSpoilt
    <3>4. \E j \in 1..Len(file') : j <= log.seq /\ Spoilt(j)'
      <4>1. CASE SomeSpoilt
        <5>1. PICK j \in 1..Len(file) : j <= log.seq /\ Spoilt(j)
          BY <2>0, <4>1 DEF Clean
        <5>2. Spoilt(j)'
          BY <1>1, <3>2, <5>1 DEF Spoilt
        <5> QED
          BY <3>2, <5>1, <5>2
      <4>2. CASE ~SomeSpoilt
        BY <3>1, <3>2, <4>2
      <4> QED
        BY <4>1, <4>2
    <3>5. \A i \in 1..Len(file') : LinkOK(file', i) \/ \E j \in 1..i : Spoilt(j)'
      BY <2>1, <3>2
    <3> QED
      BY <2>0, <2>2, <3>3, <3>4, <3>5 DEF Clean
  <2>3. CASE terminated
    <3>1. /\ Len(file') = Len(file) + 1 /\ file'[Len(file) + 1] = r
          /\ \A i \in 1..Len(file) : file'[i] = file[i]
      BY <1>1, <2>3
    <3>2. SomeSpoilt' <=> SomeSpoilt
      BY <1>1, <3>1, RecordDistinct DEF SomeSpoilt, Spoilt, NextRecord, IsRecord
    <3>3. CASE ~SomeSpoilt
      <4>1. log.seq = Len(file) /\ log.lastHash = LastHash(file)
        BY <2>0, <3>3 DEF Clean
      <4>2. r.prev = IF Len(file) + 1 = 1 THEN genesisHash ELSE file'[Len(file)].hash
        <5>1. (file = <<>>) <=> (Len(file) = 0)
          BY DEF Shape, IsSeq
        <5>2. r.prev = LastHash(file)
          BY <4>1 DEF NextRecord, NewRecord
        <5> QED
          BY <1>1, <3>1, <5>1, <5>2 DEF LastHash
      <4>3. IsRecord(r) /\ r.hash = chainHash(r.seq, r.entry, r.prev)
        BY RecordDistinct DEF NextRecord, NewRecord
      <4>4. LinkOK(file', Len(file) + 1)
        BY <1>1, <1>2, <3>1, <4>1, <4>2, <4>3 DEF LinkOK
      <4>5. \A i \in 1..Len(file') : LinkOK(file', i) \/ \E j \in 1..i : Spoilt(j)'
        BY <1>1, <2>1, <2>3, <3>1, <4>4
      <4> QED
        BY <2>0, <2>3, <3>1, <3>2, <3>3, <4>1, <4>5 DEF Clean
    <3>4. CASE SomeSpoilt
      <4>1. PICK j \in 1..Len(file) : j <= log.seq /\ Spoilt(j)
        BY <2>0, <3>4 DEF Clean
      <4>2. j \in 1..Len(file') /\ Spoilt(j)'
        BY <1>1, <3>1, <4>1 DEF Spoilt
      <4>3. \A i \in 1..Len(file') : LinkOK(file', i) \/ \E k \in 1..i : Spoilt(k)'
        BY <1>1, <2>1, <2>3, <3>1, <4>1, <4>2
      <4>4. tailTorn
        BY <3>4 DEF Clean
      <4> QED
        BY <2>0, <3>2, <3>4, <4>1, <4>2, <4>3, <4>4 DEF Clean
    <3> QED
      BY <3>3, <3>4
  <2> QED
    BY <2>2, <2>3
<1> QED
  BY <1>4, <1>5, <1>6, <1>7, <1>8

\* A failed write leaves the acknowledged lines alone, or spoils an unterminated one
\* (after an earlier fault), and then the log does not verify.
LEMMA WriteFailsIInv ==
    ASSUME IInv, NEW e \in Entries, NEW torn \in Torn, WriteFails(e, torn)
    PROVE  IInv'
<1> USE DEF IInv
<1> DEFINE r == NextRecord(e)
<1>1. WellFormed(r)
  BY DEF NextRecord, NewRecord, WellFormed, TypeOK
<1>2. CASE torn = "none"
  <2>1. file' = file /\ terminated' = terminated
    BY <1>2 DEF WriteFails, AddTorn, TypeOK
  <2>2. TypeOK'
    BY <2>1, BoundsAssumption DEF TypeOK, WriteFails
  <2>3. Shape' /\ InflightLast'
    BY <2>1 DEF Shape, InflightLast, WriteFails, NextRecord
  <2>4. AckedOrBroken' /\ AckedInPlace'
    BY <2>1, AckedKept DEF WriteFails, TypeOK, AckedInPlace
  <2>5. Clean'
    BY DEF Clean, WriteFails, TypeOK
  <2> QED
    BY <2>2, <2>3, <2>4, <2>5
<1>3. CASE torn # "none"
  <2>1. PICK line \in {Corrupt, r} : file' = AddLine(file, terminated, line)
    BY <1>3 DEF WriteFails, AddTorn, Torn
  <2>2. /\ IsSeq(file') /\ Len(file) \in Nat
        /\ Len(file') = IF terminated THEN Len(file) + 1 ELSE Len(file)
        /\ file'[Len(file')] = IF terminated THEN line ELSE Corrupt
        /\ \A i \in 1..(Len(file') - 1) : file'[i] = file[i]
    BY <2>1, AddLineEffect DEF TypeOK, Shape
  <2>3. synced < Len(file')
    BY <2>2 DEF TypeOK, Shape
  <2>9. terminated' = FALSE
    BY <1>3 DEF WriteFails
  <2>4. TypeOK'
    <3>1. ASSUME NEW i \in 1..Len(file'), IsRecord(file'[i])
          PROVE  WellFormed(file'[i])
      <4>1. CASE i = Len(file')
        BY <1>1, <2>2, <3>1, <4>1 DEF TypeOK, IsRecord
      <4>2. CASE i # Len(file')
        <5>1. i \in 1..Len(file) /\ file'[i] = file[i]
          BY <2>2, <4>2
        <5> QED
          BY <3>1, <5>1 DEF TypeOK
      <4> QED
        BY <4>1, <4>2
    <3>2. Len(file') \in 0..MaxLines /\ synced' \in 0..Len(file')
      BY <2>2, BoundsAssumption DEF WriteFails, CanAppend, TypeOK
    <3> QED
      BY <2>9, <3>1, <3>2, BoundsAssumption DEF TypeOK, WriteFails
  <2>5. Shape' /\ InflightLast'
    BY <2>2, <2>3, <2>9 DEF Shape, InflightLast, WriteFails, CanAppend
  <2>6. AckedOrBroken' /\ AckedInPlace'
    BY <2>2, <2>3, AckedKept DEF WriteFails, TypeOK, AckedInPlace
  <2>7. Clean'
    BY DEF Clean, WriteFails, TypeOK
  <2> QED
    BY <2>4, <2>5, <2>6, <2>7
<1> QED
  BY <1>2, <1>3

\* An fsync covers the record in flight, the last line, and acknowledges it.
LEMMA SyncIInv == IInv /\ Sync => IInv'
<1> SUFFICES ASSUME IInv, Sync PROVE IInv'
  OBVIOUS
<1> USE DEF IInv
<1>1. /\ inflight.seq = log.seq + 1 /\ inflight.entry \in Entries
      /\ Len(file) > 0 /\ file' = file /\ synced' = Len(file)
      /\ file[Len(file)] = inflight \/ file[Len(file)] = Corrupt
      /\ synced \in 0..Len(file) /\ Len(file) \in Nat
  BY DEF Sync, InflightLast, TypeOK, NextRecord, NewRecord
<1>2. TypeOK'
  BY <1>1 DEF TypeOK, Sync, Shape
<1>3. Shape'
  <2>1. terminated' /\ log' = [open |-> log.open, seq |-> inflight.seq, lastHash |-> inflight.hash]
    BY DEF InflightLast, Shape, Sync
  <2> QED
    BY <1>1, <2>1 DEF Shape
<1>4. InflightLast' /\ Clean' /\ AckedInPlace'
  <2>1. file # <<>> /\ inflight # NoRecord
    BY <1>1 DEF Sync
  <2>2. log'.seq = inflight.seq /\ log'.lastHash = inflight.hash /\ log.open /\ log.seq \in Nat
    BY DEF Sync, Shape, TypeOK
  <2>3. /\ inflight' = NoRecord /\ acked' = acked \cup {inflight}
        /\ UNCHANGED <<file, terminated, faults, tailTorn>>
    BY DEF Sync
  <2>4. InflightLast'
    BY <2>3 DEF InflightLast
  <2>5. SomeSpoilt' <=> SomeSpoilt
    BY <2>3 DEF SomeSpoilt, Spoilt
  <2>6. \A j \in 1..Len(file) : Spoilt(j)' <=> Spoilt(j)
    BY <2>3 DEF Spoilt
  <2>7. ASSUME faults = 0, ~SomeSpoilt
        PROVE  Len(file) = log.seq + 1 /\ file[Len(file)] = inflight
    BY <2>1, <2>7 DEF Clean
  <2>8. ASSUME faults = 0, SomeSpoilt
        PROVE  \E j \in 1..Len(file) : j <= log.seq /\ Spoilt(j)
    BY <2>2, <2>8 DEF Clean
  <2>9. Clean'
    <3> SUFFICES ASSUME faults = 0 PROVE Clean'
      BY <2>3 DEF Clean
    <3>1. /\ ~tailTorn => terminated /\ ~SomeSpoilt
          /\ \A i \in 1..Len(file) : LinkOK(file, i) \/ \E j \in 1..i : Spoilt(j)
      BY DEF Clean
    <3>2. \A i \in 1..Len(file) : LinkOK(file', i) \/ \E j \in 1..i : Spoilt(j)'
      BY <2>3, <3>1 DEF Spoilt
    <3>3. ~SomeSpoilt => log'.seq = Len(file) /\ log'.lastHash = LastHash(file)
      BY <1>1, <2>1, <2>2, <2>7 DEF LastHash
    <3>4. SomeSpoilt => \E j \in 1..Len(file) : j <= log'.seq /\ Spoilt(j)
      BY <1>1, <2>2, <2>8
    <3> QED
      BY <2>3, <2>5, <2>6, <3>1, <3>2, <3>3, <3>4 DEF Clean
  <2>10. AckedInPlace'
    <3> SUFFICES ASSUME faults = 0, NEW r \in acked'
                 PROVE  \/ r.seq \in 1..Len(file) /\ file[r.seq] = r
                        \/ \E j \in 1..Len(file) : j < r.seq /\ Spoilt(j)
      BY <1>1, <2>3, <2>6 DEF AckedInPlace
    <3>1. CASE r \in acked
      BY <1>1, <3>1 DEF AckedInPlace
    <3>2. CASE r = inflight
      <4>1. CASE ~SomeSpoilt
        BY <1>1, <2>7, <3>2, <4>1
      <4>2. CASE SomeSpoilt
        BY <1>1, <2>2, <2>8, <3>2, <4>2
      <4> QED
        BY <4>1, <4>2
    <3> QED
      BY <2>3, <3>1, <3>2
  <2> QED
    BY <2>4, <2>9, <2>10
<1>5. AckedOrBroken'
  <2> SUFFICES ASSUME NEW r \in acked',
                      \A i \in 1..synced' : LinkOK(file, i)
               PROVE  r.seq \in 1..synced' /\ file[r.seq] = r
    BY <1>1 DEF AckedOrBroken
  <2>1. CASE r \in acked
    BY <1>1, <2>1 DEF AckedOrBroken
  <2>2. CASE r = inflight
    <3>1. LinkOK(file, Len(file))
      BY <1>1
    <3>2. file[Len(file)] = inflight /\ inflight.seq = Len(file)
      BY <1>1, <3>1 DEF LinkOK, IsRecord
    <3> QED
      BY <1>1, <2>2, <3>2
  <2> QED
    BY <2>1, <2>2 DEF Sync
<1> QED
  BY <1>2, <1>3, <1>4, <1>5

\* A failed fsync acknowledges nothing; the written line stays in the file.
LEMMA SyncFailsIInv == IInv /\ SyncFails => IInv'
<1> SUFFICES ASSUME IInv, SyncFails PROVE IInv'
  OBVIOUS
<1> USE DEF IInv
<1>1. TypeOK'
  BY BoundsAssumption DEF TypeOK, SyncFails
<1>2. Shape' /\ InflightLast'
  BY DEF Shape, InflightLast, SyncFails
<1>3. AckedOrBroken' /\ AckedInPlace'
  BY AckedKept DEF SyncFails, TypeOK, AckedInPlace
<1>4. Clean'
  BY DEF Clean, SyncFails, TypeOK
<1> QED
  BY <1>1, <1>2, <1>3, <1>4

\* A stopped process changes nothing in the file.
LEMMA CrashIInv == IInv /\ Crash => IInv'
<1> SUFFICES ASSUME IInv, Crash PROVE IInv'
  OBVIOUS
<1> USE DEF IInv
<1>1. TypeOK'
  BY BoundsAssumption DEF TypeOK, Crash, Closed
<1>2. Shape' /\ InflightLast'
  BY DEF Shape, InflightLast, Crash, Closed
<1>3. AckedOrBroken' /\ AckedInPlace'
  BY AckedKept DEF Crash
<1>4. Clean'
  BY DEF Clean, Crash, Closed, SomeSpoilt, Spoilt, LinkOK, IsRecord
<1> QED
  BY <1>1, <1>2, <1>3, <1>4

\* A power loss removes only lines no fsync covers, and no acknowledged one among them.
LEMMA PowerLossIInv == ASSUME IInv, NEW kept, PowerLoss(kept) PROVE IInv'
<1> USE DEF IInv
<1>1. /\ kept \in 0..Len(file) /\ synced <= kept /\ synced \in Nat /\ Len(file) \in Nat
      /\ file' = SubSeq(file, 1, kept)
  BY DEF PowerLoss, TypeOK
<1>2. IsSeq(file') /\ Len(file') = kept /\ \A i \in 1..kept : file'[i] = file[i]
  BY <1>1, KeepLines DEF Shape
<1>3. TypeOK'
  BY <1>1, <1>2, BoundsAssumption DEF TypeOK, PowerLoss, Closed
<1>4. Shape'
  <2>1. CASE kept < Len(file)
    <3>1. terminated'
      BY <2>1 DEF PowerLoss
    <3> QED
      BY <1>2, <3>1 DEF Shape, PowerLoss, Closed
  <2>2. CASE kept = Len(file)
    <3>1. terminated => terminated'
      BY DEF PowerLoss
    <3> QED
      BY <1>1, <1>2, <2>2, <3>1 DEF Shape, PowerLoss, Closed
  <2> QED
    BY <1>1, <2>1, <2>2
<1>5. InflightLast'
  BY DEF InflightLast, PowerLoss
<1>6. AckedOrBroken' /\ AckedInPlace'
  BY <1>1, <1>2, AckedKept DEF PowerLoss
<1>7. Clean'
  <2>0. ~log'.open /\ inflight' = NoRecord /\ UNCHANGED <<faults, tailTorn>>
    BY DEF PowerLoss, Closed
  <2>1. kept \in Nat
    BY <1>1
  <2>2. \A i \in 1..kept : LinkOK(file', i) <=> LinkOK(file, i)
    BY <1>2, <2>1, LinksKept
  <2>3. \A j \in 1..kept : j \in 1..Len(file) /\ (Spoilt(j)' <=> Spoilt(j))
    BY <1>1, <1>2 DEF Spoilt
  <2>4. ~SomeSpoilt => ~SomeSpoilt'
    BY <1>2, <2>3 DEF SomeSpoilt
  <2>5. ASSUME faults = 0
        PROVE  \A i \in 1..Len(file') : LinkOK(file', i) \/ \E j \in 1..i : Spoilt(j)'
    <3> SUFFICES ASSUME NEW i \in 1..kept, ~LinkOK(file', i)
                 PROVE  \E j \in 1..i : Spoilt(j)'
      BY <1>2
    <3>1. PICK j \in 1..i : Spoilt(j)
      BY <2>2, <2>3, <2>5 DEF Clean
    <3> QED
      BY <2>1, <2>3, <3>1
  <2>6. terminated => terminated'
    BY DEF PowerLoss
  <2> QED
    BY <2>0, <2>4, <2>5, <2>6 DEF Clean
<1> QED
  BY <1>3, <1>4, <1>5, <1>6, <1>7

\* A torn tail replaces the first of the lost lines.
LEMMA PowerLossTearsIInv ==
    ASSUME IInv, NEW kept, NEW torn \in Torn, PowerLossTears(kept, torn)
    PROVE  IInv'
<1> USE DEF IInv
<1> DEFINE rest == SubSeq(file, 1, kept)
<1>1. /\ kept \in 0..Len(file) /\ kept < Len(file) /\ kept \in Nat
      /\ synced <= kept /\ synced \in Nat /\ Len(file) \in Nat
  BY DEF PowerLossTears, TypeOK
<1>0. /\ terminated' = FALSE /\ log' = Closed /\ inflight' = NoRecord
      /\ faults' = faults /\ tailTorn' = TRUE
      /\ crashes' = crashes + 1 /\ crashes < MaxCrashes
      /\ synced' = synced /\ acked' = acked
  BY Zenon DEF PowerLossTears
<1>2. IsSeq(rest) /\ Len(rest) = kept /\ \A i \in 1..kept : rest[i] = file[i]
  BY <1>1, KeepLines DEF Shape
<1>3. PICK line \in {Corrupt, file[kept + 1]} : file' = AddLine(rest, TRUE, line)
  BY DEF PowerLossTears, AddTorn, Torn
<1>4. /\ IsSeq(file') /\ Len(file') = kept + 1
      /\ file'[kept + 1] = line
      /\ \A i \in 1..kept : file'[i] = file[i]
  <2>1. file' = Append(rest, line)
    BY <1>3 DEF AddLine
  <2>2. /\ IsSeq(Append(rest, line))
        /\ Len(Append(rest, line)) = Len(rest) + 1
        /\ Append(rest, line)[Len(rest) + 1] = line
        /\ \A i \in 1..Len(rest) : Append(rest, line)[i] = rest[i]
    BY <1>2, AppendLine
  <2> QED
    BY <1>2, <2>1, <2>2
<1>5. TypeOK'
  <2>1. ASSUME NEW i \in 1..Len(file'), IsRecord(file'[i])
        PROVE  WellFormed(file'[i])
    <3>1. i \in 1..Len(file) /\ file'[i] = file[i]
      <4>1. CASE i = kept + 1
        BY <1>1, <1>4, <2>1, <4>1 DEF IsRecord
      <4>2. CASE i # kept + 1
        BY <1>1, <1>4, <4>2
      <4> QED
        BY <4>1, <4>2
    <3> QED
      BY <2>1, <3>1 DEF TypeOK
  <2>2. Len(file') \in 0..MaxLines /\ synced' \in 0..Len(file')
    BY <1>0, <1>1, <1>4, BoundsAssumption DEF TypeOK
  <2>3. terminated' \in BOOLEAN /\ log'.open \in BOOLEAN /\ log'.seq \in Nat
    BY <1>0 DEF Closed
  <2>4. faults' \in 0..MaxFaults /\ crashes' \in 0..MaxCrashes
    BY <1>0, BoundsAssumption DEF TypeOK
  <2>5. \A r \in acked' : r.seq \in Nat \ {0} /\ r.entry \in Entries
    BY <1>0 DEF TypeOK
  <2> QED
    BY <1>0, <2>1, <2>2, <2>3, <2>4, <2>5 DEF TypeOK
<1>6. Shape'
  <2>1. synced' < Len(file')
    BY <1>0, <1>1, <1>4
  <2>2. IsSeq(file')
    BY <1>4
  <2> QED
    BY <1>0, <2>1, <2>2 DEF Shape, Closed
<1>7. InflightLast'
  BY <1>0 DEF InflightLast
<1>8. AckedOrBroken' /\ AckedInPlace'
  <2>1. \A i \in 1..synced : file'[i] = file[i]
    BY <1>1, <1>4
  <2> QED
    BY <1>0, <2>1, AckedKept
<1>9. Clean'
  <2>1. ~log'.open /\ inflight' = NoRecord /\ faults' = faults /\ tailTorn'
    BY <1>0 DEF Closed
  <2>2. \A j \in 1..kept : j \in 1..Len(file) /\ (Spoilt(j)' <=> Spoilt(j))
    BY <1>1, <1>4 DEF Spoilt
  <2>3. ASSUME faults = 0, NEW i \in 1..Len(file'), ~LinkOK(file', i)
        PROVE  \E j \in 1..i : Spoilt(j)'
    <3>1. CASE Spoilt(i)'
      BY <1>1, <1>4, <3>1
    <3>2. CASE ~Spoilt(i)'
      <4>1. i \in 1..Len(file) /\ \A j \in 1..i : file'[j] = file[j]
        <5>1. CASE i = kept + 1
          <6>1. file'[i] = file[i]
            BY <1>3, <1>4, <3>2, <5>1 DEF Spoilt
          <6> QED
            BY <1>1, <1>4, <5>1, <6>1
        <5>2. CASE i # kept + 1
          BY <1>1, <1>4, <5>2
        <5> QED
          BY <5>1, <5>2
      <4>2. LinkOK(file', i) <=> LinkOK(file, i)
        BY <1>1, <4>1, LinksKept
      <4>3. PICK j \in 1..i : Spoilt(j)
        BY <2>3, <4>1, <4>2 DEF Clean
      <4> QED
        BY <4>1, <4>3 DEF Spoilt
    <3> QED
      BY <3>1, <3>2
  <2> QED
    BY <2>1, <2>3 DEF Clean
<1> QED
  BY <1>5, <1>6, <1>7, <1>8, <1>9

\* A step that changes nothing.
LEMMA StutterIInv == IInv /\ UNCHANGED vars => IInv'
BY DEF IInv, TypeOK, Shape, InflightLast, AckedOrBroken, Clean, AckedInPlace, SomeSpoilt, Spoilt,
       LinkOK, LastHash, IsRecord, NextRecord, WellFormed, vars

\* Every step keeps the invariant.
LEMMA NextIInv == IInv /\ [Next]_vars => IInv'
<1> SUFFICES ASSUME IInv, [Next]_vars PROVE IInv'
  OBVIOUS
<1>1. CASE Open
  BY <1>1, OpenIInv
<1>2. ASSUME NEW e \in Entries, Write(e) PROVE IInv'
  BY <1>2, WriteIInv
<1>3. ASSUME NEW e \in Entries, NEW torn \in Torn, WriteFails(e, torn) PROVE IInv'
  BY <1>3, WriteFailsIInv
<1>4. CASE Sync
  BY <1>4, SyncIInv
<1>5. CASE SyncFails
  BY <1>5, SyncFailsIInv
<1>6. CASE Crash
  BY <1>6, CrashIInv
<1>7. ASSUME NEW kept \in 0..MaxLines, PowerLoss(kept) PROVE IInv'
  BY <1>7, PowerLossIInv
<1>8. ASSUME NEW kept \in 0..MaxLines, NEW torn \in Torn, PowerLossTears(kept, torn)
      PROVE IInv'
  BY <1>8, PowerLossTearsIInv
<1>9. CASE UNCHANGED vars
  BY <1>9, StutterIInv
<1> QED
  BY <1>1, <1>2, <1>3, <1>4, <1>5, <1>6, <1>7, <1>8, <1>9 DEF Next, Working, Outage

\* The inductive invariant holds in every reachable state.
THEOREM Invariance == Spec => []IInv
BY InitIInv, NextIInv, PTL DEF Spec

\* Every reachable state of the log has the right shape.
THEOREM TypeCorrect == Spec => []TypeOK
<1>1. IInv => TypeOK
  BY DEF IInv
<1> QED
  BY <1>1, Invariance, PTL

-----------------------------------------------------------------------------
(* What the log guarantees *)

\* Without a failed write or sync the log verifies, as long as a reader takes its lines, up
\* to the line of a torn tail if there is one (log.go, Open and Append).
THEOREM ChainStaysIntact == Spec => []ChainIntact
<1>1. IInv => ChainIntact
  BY DEF IInv, Clean, ChainIntact, SomeSpoilt
<1> QED
  BY <1>1, Invariance, PTL

\* Without a failed write or sync an acknowledged record is at its place on stable storage,
\* or a torn tail has left a line before it at which readers stop.
THEOREM AckedStaysDurable == Spec => []AckedDurable
<1>1. IInv => AckedDurable
  <2> SUFFICES ASSUME IInv, faults = 0, NEW r \in acked,
                      ~(r.seq \in 1..synced /\ file[r.seq] = r)
               PROVE  tailTorn /\ \E j \in 1..synced : j < r.seq /\ Spoilt(j)
    BY DEF AckedDurable, IInv, TypeOK
  <2>1. PICK j \in 1..synced : j < r.seq /\ Spoilt(j)
    BY DEF IInv, AckedInPlace
  <2>2. j \in 1..Len(file)
    BY DEF IInv, TypeOK
  <2>3. tailTorn
    BY <2>1, <2>2 DEF IInv, Clean, SomeSpoilt
  <2> QED
    BY <2>1, <2>3
<1> QED
  BY <1>1, Invariance, PTL

\* Whatever failed, a log that verifies holds every acknowledged record.
THEOREM VerifiedLogIsComplete == Spec => []VerifiedHoldsAcked
<1>1. IInv => VerifiedHoldsAcked
  <2> SUFFICES ASSUME IInv, VerifyOK(file), NEW r \in acked
               PROVE  r.seq <= Len(file) /\ file[r.seq] = r
    BY DEF VerifiedHoldsAcked
  <2>1. synced \in 0..Len(file) /\ Len(file) \in Nat
    BY DEF IInv, TypeOK
  <2>2. \A i \in 1..synced : LinkOK(file, i)
    BY <2>1 DEF VerifyOK, ChainOK
  <2>3. r.seq \in 1..synced /\ file[r.seq] = r
    BY <2>2 DEF IInv, AckedOrBroken
  <2> QED
    BY <2>1, <2>3
<1> QED
  BY <1>1, Invariance, PTL

\* What SyncedForever says of one step.
KeepsSynced ==
    /\ synced <= synced'
    /\ Len(file') >= synced
    /\ \A i \in 1..synced : file'[i] = file[i]

\* A write that starts where the file ends leaves every synced line alone.
LEMMA AddLineKeepsSynced ==
    ASSUME IInv, NEW nl, nl = terminated, NEW x, file' = AddLine(file, nl, x),
           synced' = synced
    PROVE  KeepsSynced
<1>1. /\ Len(file') = IF terminated THEN Len(file) + 1 ELSE Len(file)
      /\ \A i \in 1..(Len(file') - 1) : file'[i] = file[i]
      /\ synced \in 0..Len(file) /\ Len(file) \in Nat
      /\ ~terminated => synced < Len(file)
  BY AddLineEffect DEF IInv, TypeOK, Shape
<1> QED
  BY <1>1 DEF KeepsSynced

\* A step of the log keeps what is synced.
LEMMA StepKeepsSynced == IInv /\ [Next]_vars => KeepsSynced \/ UNCHANGED vars
<1> SUFFICES ASSUME IInv, Next PROVE KeepsSynced
  BY DEF vars
<1>1. synced \in 0..Len(file) /\ Len(file) \in Nat
  BY DEF IInv, TypeOK
<1>2. file' = file /\ synced' = synced => KeepsSynced
  BY <1>1 DEF KeepsSynced
<1>3. CASE Open \/ SyncFails \/ Crash
  BY <1>2, <1>3 DEF Open, SyncFails, Crash
<1>4. ASSUME NEW e \in Entries, Write(e) PROVE KeepsSynced
  BY <1>4, AddLineKeepsSynced DEF Write
<1>5. ASSUME NEW e \in Entries, NEW torn \in Torn, WriteFails(e, torn) PROVE KeepsSynced
  <2>1. file' = file \/ \E line : file' = AddLine(file, terminated, line)
    BY <1>5 DEF WriteFails, AddTorn, Torn
  <2>2. synced' = synced
    BY <1>5 DEF WriteFails
  <2> QED
    BY <1>2, <2>1, <2>2, AddLineKeepsSynced
<1>6. CASE Sync
  BY <1>1, <1>6 DEF KeepsSynced, Sync
<1>7. ASSUME NEW kept \in 0..MaxLines, PowerLoss(kept) PROVE KeepsSynced
  <2>1. kept \in 0..Len(file) /\ synced <= kept /\ synced' = synced
    BY <1>1, <1>7 DEF PowerLoss
  <2>2. Len(file') = kept /\ \A i \in 1..kept : file'[i] = file[i]
    BY <1>7, <2>1, KeepLines DEF PowerLoss, IInv, Shape
  <2> QED
    BY <1>1, <2>1, <2>2 DEF KeepsSynced
<1>8. ASSUME NEW kept \in 0..MaxLines, NEW torn \in Torn, PowerLossTears(kept, torn)
      PROVE  KeepsSynced
  <2> DEFINE rest == SubSeq(file, 1, kept)
  <2>1. kept \in 0..Len(file) /\ synced <= kept /\ synced' = synced
    <3>1. synced' = synced
      BY <1>8, Zenon DEF PowerLossTears
    <3>2. kept \in 0..Len(file) /\ synced <= kept
      BY <1>1, <1>8 DEF PowerLossTears
    <3> QED
      BY <3>1, <3>2
  <2>2. IsSeq(rest) /\ Len(rest) = kept /\ \A i \in 1..kept : rest[i] = file[i]
    BY <2>1, KeepLines DEF IInv, Shape
  <2>3. PICK line : file' = Append(rest, line)
    BY <1>8 DEF PowerLossTears, AddTorn, Torn, AddLine
  <2>4. Len(file') = kept + 1 /\ \A i \in 1..kept : file'[i] = file[i]
    BY <2>2, <2>3, AppendLine
  <2> QED
    BY <1>1, <2>1, <2>4 DEF KeepsSynced
<1> QED
  BY <1>3, <1>4, <1>5, <1>6, <1>7, <1>8 DEF Next, Working, Outage

\* Whatever failed or stopped, a synced line is never changed or removed.
THEOREM SyncedLinesStay == Spec => SyncedForever
BY StepKeepsSynced, Invariance, PTL DEF Spec, SyncedForever, KeepsSynced

-----------------------------------------------------------------------------
(* Edits that verification cannot pass over *)

\* Changing one line of a log.
LEMMA EditLine ==
    ASSUME NEW f, IsSeq(f), NEW i \in 1..Len(f), NEW x
    PROVE  /\ Len([f EXCEPT ![i] = x]) = Len(f)
           /\ [f EXCEPT ![i] = x][i] = x
           /\ \A j \in 1..Len(f) : j # i => [f EXCEPT ![i] = x][j] = f[j]
<1>1. PICK S : f \in Seq(S)
  BY DEF IsSeq
<1>2. f \in Seq(S \cup {x}) /\ Len(f) \in Nat
  BY <1>1
<1> QED
  BY <1>2, ExceptSeq

\* A log with a line taken out: the next line moves up by one.
LEMMA DropLine ==
    ASSUME NEW f, IsSeq(f), NEW i \in 1..(Len(f) - 1)
    PROVE  Len(Dropped(f, i)) >= i /\ Dropped(f, i)[i] = f[i + 1]
<1>1. PICK S : f \in Seq(S)
  BY DEF IsSeq
<1>2. Len(f) \in Nat /\ \A j \in 1..Len(f) : f[j] \in S
  BY <1>1
<1> DEFINE a == SubSeq(f, 1, i - 1)
           b == SubSeq(f, i + 1, Len(f))
<1>3. a \in Seq(S) /\ Len(a) = i - 1
  BY <1>2, SubSeqProperties
<1>4. b \in Seq(S) /\ Len(b) = Len(f) - i /\ b[1] = f[i + 1]
  BY <1>2, SubSeqProperties
<1>5. Len(a \o b) = Len(f) - 1 /\ (a \o b)[i] = b[1]
  BY <1>2, <1>3, <1>4, ConcatProperties
<1> QED
  BY <1>2, <1>4, <1>5 DEF Dropped

\* Every edit of one record that changes its joined text, every exchange of two and every
\* drop but of the last breaks verification (verify.go, Verify).
THEOREM EditsAreDetected == Spec => []EditDetected
<1>1. IInv => EditDetected
  <2> SUFFICES ASSUME IInv, VerifyOK(file) PROVE EditDetected
    BY DEF EditDetected
  <2>1. IsSeq(file) /\ Len(file) \in Nat
    BY DEF IInv, Shape, TypeOK
  <2>2. \A i \in 1..Len(file) : LinkOK(file, i) /\ file[i].seq = i
    BY DEF VerifyOK, ChainOK, LinkOK
  <2>3. \A i \in 1..Len(file) : WellFormed(file[i]) /\ file[i].hash = chainHash(i, file[i].entry, file[i].prev)
    BY <2>2 DEF IInv, TypeOK, LinkOK
  <2>4. ASSUME NEW i \in 1..Len(file), NEW e \in Edits(file, i)
        PROVE  ~VerifyOK(Altered(file, i, e))
    <3> DEFINE r == [file[i] EXCEPT !.entry = e]
    <3>1. r.seq = i /\ r.entry = e /\ r.hash = file[i].hash
      BY <2>2, <2>3 DEF WellFormed, NewRecord
    <3>2. r.hash # chainHash(r.seq, r.entry, r.prev)
      BY <2>3, <2>4, <3>1 DEF chainHash, Edits
    <3>3. Len(Altered(file, i, e)) = Len(file) /\ Altered(file, i, e)[i] = r
      BY <2>1, EditLine DEF Altered
    <3> QED
      BY <3>2, <3>3 DEF VerifyOK, ChainOK, LinkOK
  <2>5. ASSUME NEW i \in 1..(Len(file) - 1), NEW e \in Edits(file, i)
        PROVE  ~VerifyOK(Resealed(file, i, e))
    <3> DEFINE g == Resealed(file, i, e)
    <3>1. i \in 1..Len(file) /\ i + 1 \in 1..Len(file) /\ i + 1 # i /\ i + 1 # 1
      BY <2>1
    <3>2. Len(g) = Len(file) /\ g[i] = NewRecord(file[i].seq, e, file[i].prev)
          /\ g[i + 1] = file[i + 1]
      BY <2>1, <3>1, EditLine DEF Resealed
    <3>3. g[i].hash = chainHash(i, e, file[i].prev)
      BY <2>2, <3>1, <3>2 DEF NewRecord
    <3>4. g[i].hash # file[i].hash
      BY <2>3, <2>5, <3>1, <3>3 DEF chainHash, Edits
    <3>5. g[i + 1].prev = file[i].hash
      BY <2>2, <3>1, <3>2 DEF LinkOK
    <3>6. ~LinkOK(g, i + 1)
      BY <3>1, <3>4, <3>5 DEF LinkOK
    <3> QED
      BY <3>1, <3>2, <3>6 DEF VerifyOK, ChainOK
  <2>6. ASSUME NEW i \in 1..Len(file), NEW j \in 1..Len(file), i < j
        PROVE  ~VerifyOK(Swapped(file, i, j))
    <3> DEFINE h == [file EXCEPT ![i] = file[j]]
               g == [h EXCEPT ![j] = file[i]]
    <3>1. PICK S : file \in Seq(S)
      BY <2>1 DEF IsSeq
    <3>2. h \in Seq(S) /\ Len(h) = Len(file) /\ h[i] = file[j]
      BY <3>1, ExceptSeq
    <3>3. Len(g) = Len(file) /\ g[i] = file[j]
      BY <2>1, <2>6, <3>1, <3>2, ExceptSeq
    <3>4. Swapped(file, i, j) = g
      BY DEF Swapped
    <3>5. g[i].seq # i
      BY <2>2, <2>6, <3>3
    <3> QED
      BY <3>3, <3>4, <3>5 DEF VerifyOK, ChainOK, LinkOK
  <2>7. ASSUME NEW i \in 1..(Len(file) - 1)
        PROVE  ~VerifyOK(Dropped(file, i))
    <3>1. Len(Dropped(file, i)) >= i /\ Dropped(file, i)[i] = file[i + 1]
      BY <2>1, DropLine
    <3>2. file[i + 1].seq = i + 1 /\ i \in 1..Len(Dropped(file, i))
      <4>1. i + 1 \in 1..Len(file)
        BY <2>1
      <4>2. Len(Dropped(file, i)) \in Nat
        BY <2>1, SubSeqProperties, ConcatProperties DEF Dropped, IsSeq
      <4> QED
        BY <2>2, <3>1, <4>1, <4>2
    <3> QED
      BY <3>1, <3>2 DEF VerifyOK, ChainOK, LinkOK
  <2> QED
    BY <2>4, <2>5, <2>6, <2>7 DEF EditDetected
<1> QED
  BY <1>1, Invariance, PTL

-----------------------------------------------------------------------------
(* The log implements the abstract ledger *)

Content   == [i \in 1..synced |-> EntryOf(file[i])]
Confirmed == {r.seq : r \in acked}
Intact    == faults = 0 /\ ~tailTorn

\* A step that changes neither what is synced nor what is acknowledged.
LEMMA QuietStep ==
    ASSUME IInv, KeepsSynced, synced' = synced, acked' = acked
    PROVE  UNCHANGED <<Content, Confirmed>>
<1>1. \A i \in 1..synced : EntryOf(file'[i]) = EntryOf(file[i])
  BY DEF KeepsSynced
<1> QED
  BY <1>1 DEF Content, Confirmed

\* A completed fsync makes the ledger longer.
LEMMA SyncExtends ==
    ASSUME IInv, Sync
    PROVE  /\ IsStrictPrefix(Content, Content') /\ Len(Content') = Len(file)
           /\ Confirmed' = Confirmed \cup {inflight.seq}
<1>1. /\ synced' = Len(file) /\ file' = file /\ synced < Len(file)
      /\ synced \in Nat /\ Len(file) \in Nat
  BY DEF Sync, IInv, InflightLast, TypeOK
<1> DEFINE S == {EntryOf(file[i]) : i \in 1..Len(file)}
<1>3. Content \in Seq(S) /\ Len(Content) = synced
  BY <1>1 DEF Content
<1>4. Content' \in Seq(S) /\ Len(Content') = Len(file)
  BY <1>1 DEF Content
<1>5. \A i \in 1..synced : Content[i] \in S /\ Content'[i] = Content[i]
  BY <1>1 DEF Content
<1>6. SubSeq(Content, 1, synced) = SubSeq(Content', 1, synced)
  <2>1. /\ SubSeq(Content, 1, synced) \in Seq(S)
        /\ Len(SubSeq(Content, 1, synced)) = synced
        /\ \A i \in 1..synced : SubSeq(Content, 1, synced)[i] = Content[i]
    BY <1>1, <1>5, SubSeqProperties
  <2>2. /\ SubSeq(Content', 1, synced) \in Seq(S)
        /\ Len(SubSeq(Content', 1, synced)) = synced
        /\ \A i \in 1..synced : SubSeq(Content', 1, synced)[i] = Content'[i]
    BY <1>1, <1>5, SubSeqProperties
  <2> QED
    BY <1>5, <2>1, <2>2, SeqEqual
<1>7. IsStrictPrefix(Content, Content')
  BY <1>1, <1>3, <1>4, <1>6 DEF IsStrictPrefix, IsPrefix
<1>8. Confirmed' = Confirmed \cup {inflight.seq}
  BY DEF Confirmed, Sync
<1> QED
  BY <1>4, <1>7, <1>8

\* Without faults the record in flight has the number of the last line.
LEMMA SyncNumber ==
    ASSUME IInv, Sync, Intact
    PROVE  inflight.seq = Len(file)
<1>1. faults = 0 /\ ~SomeSpoilt /\ inflight # NoRecord
  BY DEF Intact, Sync, IInv, Clean
<1> QED
  BY <1>1 DEF IInv, InflightLast, Clean, NextRecord, NewRecord

\* A first fault happens in a step that syncs and acknowledges nothing.
LEMMA StepEffect ==
    ASSUME IInv, Next, KeepsSynced
    PROVE  \/ Sync /\ UNCHANGED Intact
           \/ UNCHANGED <<Content, Confirmed>> /\ (Intact' => Intact)
<1>1. faults \in Nat /\ (Sync => faults' = faults /\ tailTorn' = tailTorn)
  BY DEF IInv, TypeOK, Sync
<1>2. ~Sync => synced' = synced /\ acked' = acked
  BY Zenon DEF Next, Working, Outage, Open, Write, WriteFails, SyncFails, Crash, PowerLoss, PowerLossTears
<1>3. faults' = faults \/ faults' = faults + 1
  BY Zenon DEF Next, Working, Outage, Open, Write, WriteFails, Sync, SyncFails, Crash, PowerLoss,
               PowerLossTears
<1>6. tailTorn' = tailTorn \/ tailTorn'
  BY Zenon DEF Next, Working, Outage, Open, Write, WriteFails, Sync, SyncFails, Crash, PowerLoss,
               PowerLossTears
<1>4. Intact' => Intact
  BY <1>1, <1>3, <1>6 DEF Intact
<1>5. Sync => UNCHANGED Intact
  BY <1>1 DEF Intact
<1> QED
  BY <1>2, <1>4, <1>5, QuietStep

\* Every step of the log is a step of the ledger (a completed fsync, or the first
\* fault) or leaves the ledger as it is, whatever fails and whenever it stops.
THEOREM LogImplementsLedger == Spec => ImplementsLedger
<1>1. Init => Abstract!Init
  <2> SUFFICES ASSUME Init PROVE Abstract!Init
    OBVIOUS
  <2>1. Content = <<>> /\ Confirmed = {} /\ Intact
    BY DEF Init, Content, Confirmed, Intact
  <2> QED
    BY <2>1 DEF Abstract!Init, Content, Confirmed, Intact
<1>2. IInv /\ [Next]_vars /\ (KeepsSynced \/ UNCHANGED vars) =>
         \/ Abstract!Confirm \/ Abstract!Fail \/ Abstract!ConfirmUnsure
         \/ UNCHANGED <<Content, Confirmed, Intact>>
  <2> SUFFICES ASSUME IInv, [Next]_vars, KeepsSynced \/ UNCHANGED vars
               PROVE  \/ Abstract!Confirm \/ Abstract!Fail \/ Abstract!ConfirmUnsure
                      \/ UNCHANGED <<Content, Confirmed, Intact>>
    OBVIOUS
  <2>1. CASE UNCHANGED vars
    BY <2>1 DEF vars, Content, Confirmed, Intact
  <2>2. CASE Next /\ KeepsSynced /\ Sync /\ UNCHANGED Intact
    <3>1. CASE Intact
      BY <2>2, <3>1, SyncExtends, SyncNumber
         DEF Abstract!Confirm, Content, Confirmed, Intact, Abstract!IsStrictPrefix,
             Abstract!IsPrefix, IsStrictPrefix, IsPrefix
    <3>2. CASE ~Intact
      BY <2>2, <3>2, SyncExtends
         DEF Abstract!ConfirmUnsure, Content, Confirmed, Intact, Abstract!IsStrictPrefix,
             Abstract!IsPrefix, IsStrictPrefix, IsPrefix
    <3> QED
      BY <3>1, <3>2
  <2>3. CASE UNCHANGED <<Content, Confirmed>> /\ (Intact' => Intact)
    <3>1. Intact \in BOOLEAN /\ Intact' \in BOOLEAN
      BY DEF Intact
    <3>2. CASE Intact' = Intact
      BY <2>3, <3>2
    <3>3. CASE Intact /\ ~Intact'
      BY <2>3, <3>3 DEF Abstract!Fail, Content, Confirmed, Intact
    <3> QED
      BY <2>3, <3>1, <3>2, <3>3
  <2> QED
    BY <2>1, <2>2, <2>3, StepEffect
<1> QED
  BY <1>1, <1>2, StepKeepsSynced, Invariance, PTL
     DEF Spec, ImplementsLedger, Abstract!Spec, Content, Confirmed, Intact

=============================================================================
