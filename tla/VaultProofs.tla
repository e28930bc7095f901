---------------------------- MODULE VaultProofs -----------------------------
(***************************************************************************)
(* Proofs about Vault, for every set of kinds and values and every bound.  *)
(*                                                                         *)
(* The inductive invariant adds to the checked ones what they rest on: the *)
(* vault file gives no value two tokens of a kind (else a reopening could  *)
(* not rebuild the reverse map), what is in the file is in memory, and     *)
(* memory does not change while a flush is between its two system calls.   *)
(***************************************************************************)
EXTENDS Vault, TLAPS

\* No value has two tokens of one kind.
OneToken(f) ==
    \A t, u \in DOMAIN f : t[1] = u[1] /\ f[t] = f[u] => t = u

\* What the file maps, f maps too.
Extended(f) ==
    \A t \in DOMAIN disk.map : t \in DOMAIN f /\ f[t] = disk.map[t]

DiskSound == disk.whole /\ OneToken(disk.map)

MemoryAhead == running => Extended(fwd)

FlushSound == flushing => running /\ dirty /\ tmp = Whole(fwd)

VInv ==
    /\ TypeOK
    /\ MapsInverse /\ CounterCovers
    /\ DiskSound /\ MemoryAhead
    /\ FlushSound /\ CleanIsSaved

-----------------------------------------------------------------------------
\* A map whose reverse map is its inverse gives no value two tokens of a kind.
LEMMA InverseIsOneToken ==
    ASSUME MapsInverse, running
    PROVE  OneToken(fwd)
BY DEF MapsInverse, OneToken

\* The maps and counters that load makes of a file with one token per value are
\* inverse to each other and ahead of every token.
LEMMA LoadRebuilds ==
    ASSUME NEW f, IsMap(f), OneToken(f),
           NEW r \in ReverseOf(f), NEW c \in CountersOf(f)
    PROVE  /\ DOMAIN r \subseteq Kinds \X Values
           /\ \A k \in DOMAIN r : r[k] \in DOMAIN f /\ r[k][1] = k[1] /\ f[r[k]] = k[2]
           /\ \A t \in DOMAIN f :
                 <<t[1], f[t]>> \in DOMAIN r /\ r[<<t[1], f[t]>>] = t
           /\ c \in [Kinds -> Nat]
           /\ \A t \in DOMAIN f : t[2] <= c[t[1]]
<1>1. \A t \in DOMAIN f : t[1] \in Kinds /\ t[2] \in Nat \ {0} /\ f[t] \in Values
  BY DEF IsMap, Tokens
<1>2. DOMAIN r = {<<t[1], f[t]>> : t \in DOMAIN f}
  BY DEF ReverseOf
<1>3. \A k \in DOMAIN r : r[k] \in DOMAIN f /\ r[k][1] = k[1] /\ f[r[k]] = k[2]
  BY DEF ReverseOf
<1>4. ASSUME NEW t \in DOMAIN f
      PROVE  <<t[1], f[t]>> \in DOMAIN r /\ r[<<t[1], f[t]>>] = t
  BY <1>2, <1>3 DEF OneToken
<1>5. c \in [Kinds -> Nat]
  BY <1>1 DEF CountersOf
<1>6. ASSUME NEW t \in DOMAIN f
      PROVE  t[2] <= c[t[1]]
  <2>1. t[2] \in Numbers(f, t[1])
    BY DEF Numbers
  <2> QED BY <1>1, <2>1 DEF CountersOf
<1>7. DOMAIN r \subseteq Kinds \X Values
  BY <1>1, <1>2
<1> QED BY <1>3, <1>4, <1>5, <1>6, <1>7

-----------------------------------------------------------------------------
\* An empty vault satisfies the invariant.
LEMMA InitVInv ==
    ASSUME Init
    PROVE  VInv
<1>1. DOMAIN NoMap = {} /\ Whole(NoMap).whole = TRUE /\ Whole(NoMap).map = NoMap
  BY DEF NoMap, Whole
<1>2. TypeOK
  <2>1. IsMap(NoMap)
    BY <1>1 DEF IsMap
  <2>2. DOMAIN rev \subseteq Kinds \X Values /\ \A k \in DOMAIN rev : rev[k] \in Tokens
    BY <1>1 DEF Init
  <2>3. disk.whole \in BOOLEAN /\ IsMap(disk.map) /\ tmp.whole \in BOOLEAN /\ IsMap(tmp.map)
    BY <1>1, <2>1 DEF Init
  <2>4. counter \in [Kinds -> Nat] /\ faults \in 0..MaxFaults /\ crashes \in 0..MaxCrashes
    BY BoundsAssumption DEF Init
  <2> QED BY <2>1, <2>2, <2>3, <2>4 DEF Init, TypeOK
<1>3. DiskSound /\ MapsInverse /\ CounterCovers /\ MemoryAhead /\ FlushSound /\ CleanIsSaved
  BY <1>1 DEF Init, DiskSound, OneToken, MapsInverse, CounterCovers, MemoryAhead, FlushSound,
              CleanIsSaved
<1> QED BY <1>2, <1>3 DEF VInv

\* Reopening rebuilds from the file what the invariant says of memory.
LEMMA OpenVInv ==
    ASSUME VInv, Open
    PROVE  VInv'
<1>1. /\ IsMap(disk.map) /\ OneToken(disk.map)
      /\ fwd' = disk.map /\ disk' = disk /\ running' /\ ~dirty' /\ ~flushing'
      /\ rev' \in ReverseOf(disk.map) /\ counter' \in CountersOf(disk.map)
  BY DEF VInv, TypeOK, DiskSound, FlushSound, Open
<1>2. /\ DOMAIN rev' \subseteq Kinds \X Values
      /\ \A k \in DOMAIN rev' :
            rev'[k] \in DOMAIN fwd' /\ rev'[k][1] = k[1] /\ fwd'[rev'[k]] = k[2]
      /\ \A t \in DOMAIN fwd' :
            <<t[1], fwd'[t]>> \in DOMAIN rev' /\ rev'[<<t[1], fwd'[t]>>] = t
      /\ counter' \in [Kinds -> Nat]
      /\ \A t \in DOMAIN fwd' : t[2] <= counter'[t[1]]
  BY <1>1, LoadRebuilds
<1>3. TypeOK'
  BY <1>1, <1>2 DEF VInv, TypeOK, IsMap, Open
<1>4. MapsInverse' /\ CounterCovers'
  BY <1>2 DEF MapsInverse, CounterCovers
<1>5. DiskSound' /\ MemoryAhead' /\ FlushSound' /\ CleanIsSaved'
  BY <1>1 DEF VInv, DiskSound, OneToken, MemoryAhead, Extended, FlushSound, CleanIsSaved, Open
<1> QED BY <1>3, <1>4, <1>5 DEF VInv

\* A new token is unused and its value had none, so the two maps stay inverse.
LEMMA AssignNewVInv ==
    ASSUME VInv, NEW kind \in Kinds, NEW v \in Values, AssignNew(kind, v)
    PROVE  VInv'
<1> DEFINE tok == Token(kind, counter[kind] + 1)
           key == <<kind, v>>
<1>1. /\ running /\ ~flushing /\ key \notin DOMAIN rev
      /\ counter' = [counter EXCEPT ![kind] = @ + 1]
      /\ fwd' = Put(fwd, tok, v) /\ rev' = Put(rev, key, tok) /\ dirty'
      /\ UNCHANGED <<running, flushing, disk, tmp, faults, crashes>>
  BY DEF AssignNew, Unlocked
<1>2. counter \in [Kinds -> Nat] /\ IsMap(fwd) /\ DOMAIN rev \subseteq Kinds \X Values
  BY DEF VInv, TypeOK
<1>3. tok \in Tokens /\ tok[1] = kind /\ tok[2] = counter[kind] + 1 /\ tok = <<kind, counter[kind] + 1>>
  BY <1>2 DEF Token, Tokens
<1>4. tok \notin DOMAIN fwd
  BY <1>1, <1>2, <1>3 DEF VInv, CounterCovers
<1>5. /\ DOMAIN fwd' = DOMAIN fwd \cup {tok} /\ fwd'[tok] = v
      /\ \A t \in DOMAIN fwd : fwd'[t] = fwd[t]
  BY <1>1, <1>4 DEF Put
<1>6. /\ DOMAIN rev' = DOMAIN rev \cup {key} /\ rev'[key] = tok
      /\ \A k \in DOMAIN rev : rev'[k] = rev[k]
  BY <1>1 DEF Put
<1>7. TypeOK'
  <2>1. IsMap(fwd')
    BY <1>2, <1>3, <1>5 DEF IsMap
  <2>2. DOMAIN rev' \subseteq Kinds \X Values /\ \A k \in DOMAIN rev' : rev'[k] \in Tokens
    BY <1>2, <1>3, <1>6 DEF VInv, TypeOK
  <2>3. counter' \in [Kinds -> Nat]
    BY <1>1, <1>2
  <2> QED BY <1>1, <2>1, <2>2, <2>3 DEF VInv, TypeOK, AssignNew
<1>8. MapsInverse'
  <2>1. ASSUME NEW t \in DOMAIN fwd'
        PROVE  <<t[1], fwd'[t]>> \in DOMAIN rev' /\ rev'[<<t[1], fwd'[t]>>] = t
    <3>1. CASE t = tok
      BY <3>1, <1>3, <1>5, <1>6
    <3>2. CASE t \in DOMAIN fwd
      BY <3>2, <1>1, <1>5, <1>6 DEF VInv, MapsInverse
    <3> QED BY <3>1, <3>2, <1>5
  <2>2. ASSUME NEW k \in DOMAIN rev'
        PROVE  rev'[k] \in DOMAIN fwd' /\ rev'[k][1] = k[1] /\ fwd'[rev'[k]] = k[2]
    <3>1. CASE k = key
      BY <3>1, <1>3, <1>5, <1>6
    <3>2. CASE k \in DOMAIN rev
      BY <3>2, <1>1, <1>5, <1>6 DEF VInv, MapsInverse
    <3> QED BY <3>1, <3>2, <1>6
  <2> QED BY <2>1, <2>2 DEF MapsInverse
<1>9. CounterCovers'
  <2>1. ASSUME NEW t \in DOMAIN fwd
        PROVE  t[2] <= counter'[t[1]]
    <3>1. t[1] \in Kinds /\ t[2] \in Nat /\ t[2] <= counter[t[1]]
      BY <1>1, <1>2 DEF VInv, CounterCovers, IsMap, Tokens
    <3> QED BY <3>1, <1>1, <1>2
  <2>2. tok[2] <= counter'[tok[1]]
    BY <1>1, <1>2, <1>3
  <2> QED BY <2>1, <2>2, <1>5 DEF CounterCovers
<1>10. DiskSound' /\ MemoryAhead' /\ FlushSound' /\ CleanIsSaved'
  BY <1>1, <1>5 DEF VInv, DiskSound, OneToken, MemoryAhead, Extended, FlushSound, CleanIsSaved
<1> QED BY <1>7, <1>8, <1>9, <1>10 DEF VInv

\* The system calls of a flush leave memory alone, and the file takes the whole of it.
LEMMA FlushVInv ==
    ASSUME VInv, FlushWrite \/ FlushWriteFails \/ FlushRename \/ FlushRenameFails
    PROVE  VInv'
<1>1. UNCHANGED <<running, fwd, rev, counter, crashes>>
  BY DEF FlushWrite, FlushWriteFails, FlushRename, FlushRenameFails, memory
<1>2. MapsInverse' /\ CounterCovers'
  BY <1>1 DEF VInv, MapsInverse, CounterCovers
<1>3. CASE FlushWrite
  <2>1. /\ running /\ dirty /\ dirty' = dirty /\ flushing' = TRUE /\ tmp' = Whole(fwd) /\ UNCHANGED <<disk, faults>>
    BY <1>3 DEF FlushWrite, Unlocked, VInv, TypeOK, memory
  <2>2. TypeOK'
    BY <1>1, <2>1 DEF VInv, TypeOK, IsMap, Whole
  <2>3. DiskSound' /\ MemoryAhead' /\ FlushSound' /\ CleanIsSaved'
    BY <1>1, <2>1 DEF VInv, DiskSound, OneToken, MemoryAhead, Extended, FlushSound, CleanIsSaved
  <2> QED BY <1>2, <2>2, <2>3 DEF VInv
<1>4. CASE FlushWriteFails
  <2>1. /\ running /\ dirty /\ dirty' = dirty /\ flushing' = FALSE /\ tmp' = Torn /\ disk' = disk
        /\ faults' \in 0..MaxFaults
    BY <1>4, BoundsAssumption DEF FlushWriteFails, Unlocked, VInv, TypeOK, memory
  <2>2. Torn.whole \in BOOLEAN /\ IsMap(Torn.map)
    BY DEF Torn, NoMap, IsMap
  <2>3. TypeOK'
    BY <1>1, <2>1, <2>2 DEF VInv, TypeOK, IsMap
  <2>4. DiskSound' /\ MemoryAhead' /\ FlushSound' /\ CleanIsSaved'
    BY <1>1, <2>1 DEF VInv, DiskSound, OneToken, MemoryAhead, Extended, FlushSound, CleanIsSaved
  <2> QED BY <1>2, <2>3, <2>4 DEF VInv
<1>5. CASE FlushRename
  <2>1. /\ running /\ dirty' = FALSE /\ flushing' = FALSE
        /\ disk'.whole = TRUE /\ disk'.map = fwd /\ UNCHANGED <<tmp, faults>>
    BY <1>5 DEF FlushRename, VInv, FlushSound, Whole
  <2>2. TypeOK'
    BY <1>1, <2>1 DEF VInv, TypeOK, IsMap
  <2>3. OneToken(fwd)
    BY <2>1, InverseIsOneToken DEF VInv
  <2>4. DiskSound' /\ MemoryAhead' /\ FlushSound' /\ CleanIsSaved'
    BY <1>1, <2>1, <2>3 DEF DiskSound, OneToken, MemoryAhead, Extended, FlushSound, CleanIsSaved
  <2> QED BY <1>2, <2>2, <2>4 DEF VInv
<1>6. CASE FlushRenameFails
  <2>1. /\ running /\ dirty /\ dirty' = dirty /\ flushing' = FALSE /\ UNCHANGED <<disk, tmp>>
        /\ faults' \in 0..MaxFaults
    BY <1>6, BoundsAssumption DEF FlushRenameFails, VInv, TypeOK, FlushSound, memory
  <2>2. TypeOK'
    BY <1>1, <2>1 DEF VInv, TypeOK, IsMap
  <2>3. DiskSound' /\ MemoryAhead' /\ FlushSound' /\ CleanIsSaved'
    BY <1>1, <2>1 DEF VInv, DiskSound, OneToken, MemoryAhead, Extended, FlushSound, CleanIsSaved
  <2> QED BY <1>2, <2>2, <2>3 DEF VInv
<1> QED BY <1>3, <1>4, <1>5, <1>6

\* A crash takes memory and leaves the file.
LEMMA CrashVInv ==
    ASSUME VInv, Crash
    PROVE  VInv'
<1>1. /\ running' = FALSE /\ dirty' = FALSE /\ flushing' = FALSE /\ fwd' = NoMap /\ rev' = NoMap
      /\ counter' \in [Kinds -> Nat] /\ tmp' \in {tmp, Torn} /\ UNCHANGED <<disk, faults>>
      /\ crashes' \in 0..MaxCrashes
  BY BoundsAssumption DEF Crash, VInv, TypeOK
<1>2. DOMAIN NoMap = {} /\ Torn.whole \in BOOLEAN /\ Torn.map = NoMap
  BY DEF NoMap, Torn
<1>3. TypeOK'
  <2>1. IsMap(NoMap)
    BY <1>2 DEF IsMap
  <2>2. tmp'.whole \in BOOLEAN /\ IsMap(tmp'.map)
    BY <1>1, <1>2, <2>1 DEF VInv, TypeOK
  <2> QED BY <1>1, <1>2, <2>1, <2>2 DEF VInv, TypeOK, IsMap
<1>4. DiskSound' /\ MapsInverse' /\ CounterCovers' /\ MemoryAhead' /\ FlushSound' /\ CleanIsSaved'
  BY <1>1 DEF VInv, DiskSound, OneToken, MapsInverse, CounterCovers, MemoryAhead, FlushSound,
              CleanIsSaved
<1> QED BY <1>3, <1>4 DEF VInv

\* A step that changes nothing keeps the invariant.
LEMMA StutterVInv ==
    ASSUME VInv, UNCHANGED vars
    PROVE  VInv'
BY DEF vars, VInv, TypeOK, MapsInverse, CounterCovers, DiskSound, OneToken, MemoryAhead,
       Extended, FlushSound, CleanIsSaved, IsMap

\* Every step keeps the invariant.
LEMMA NextVInv ==
    ASSUME VInv, [Next]_vars
    PROVE  VInv'
<1>1. CASE Open
  BY <1>1, OpenVInv
<1>2. ASSUME NEW kind \in Kinds, NEW v \in Values, Assign(kind, v)
      PROVE  VInv'
  BY <1>2, AssignNewVInv, StutterVInv DEF Assign, AssignKnown
<1>3. CASE FlushWrite \/ FlushWriteFails \/ FlushRename \/ FlushRenameFails
  BY <1>3, FlushVInv
<1>4. CASE Crash
  BY <1>4, CrashVInv
<1>5. CASE UNCHANGED vars
  BY <1>5, StutterVInv
<1> QED BY <1>1, <1>2, <1>3, <1>4, <1>5 DEF Next

-----------------------------------------------------------------------------
(* Theorems *)

\* The invariant holds in every reachable state of the vault.
THEOREM VaultInvariance == Spec => []VInv
<1>1. Init => VInv
  BY InitVInv
<1>2. VInv /\ [Next]_vars => VInv'
  BY NextVInv
<1> QED BY <1>1, <1>2, PTL DEF Spec

\* Every variable of the vault keeps its type.
THEOREM VaultTypeCorrect == Spec => []TypeOK
<1>1. VInv => TypeOK
  BY DEF VInv
<1> QED BY <1>1, VaultInvariance, PTL

\* In a running vault, tokens and values of a kind correspond one to one, after
\* any sequence of assignments, failed flushes, crashes and reopenings.
THEOREM TokensAreOneToOne == Spec => []MapsInverse
<1>1. VInv => MapsInverse
  BY DEF VInv
<1> QED BY <1>1, VaultInvariance, PTL

\* The counter of a kind is at every moment at least its highest token in use.
THEOREM CountersAreAhead == Spec => []CounterCovers
<1>1. VInv => CounterCovers
  BY DEF VInv
<1> QED BY <1>1, VaultInvariance, PTL

\* The vault file can be opened in every state, whatever failed or stopped.
THEOREM VaultFileOpens == Spec => []DiskOpens
<1>1. VInv => DiskOpens
  BY DEF VInv, DiskSound, DiskOpens
<1> QED BY <1>1, VaultInvariance, PTL

\* With no assignment pending, the file holds all that the process knows.
THEOREM NothingPendingIsSaved == Spec => []CleanIsSaved
<1>1. VInv => CleanIsSaved
  BY DEF VInv
<1> QED BY <1>1, VaultInvariance, PTL

\* A running vault reveals the tokens of its file as the file has them.
THEOREM FileIsRevealed == Spec => []RevealsPersisted
<1>1. VInv => RevealsPersisted
  BY DEF VInv, MemoryAhead, Extended, RevealsPersisted, Reveal
<1> QED BY <1>1, VaultInvariance, PTL

\* No step removes a token from the vault file or gives it another value.
LEMMA StepKeepsFile ==
    ASSUME VInv, [Next]_vars
    PROVE  \A t \in DOMAIN disk.map : t \in DOMAIN disk.map' /\ disk.map'[t] = disk.map[t]
<1>1. CASE FlushRename
  BY <1>1 DEF FlushRename, VInv, FlushSound, MemoryAhead, Extended, Whole
<1>2. CASE ~FlushRename
  <2>1. disk' = disk
    BY <1>2 DEF Next, Open, Assign, AssignKnown, AssignNew, FlushWrite, FlushWriteFails,
                FlushRenameFails, Crash, vars
  <2> QED BY <2>1
<1> QED BY <1>1, <1>2

\* What was persisted stays persisted with its value, over every crash, reopening
\* and failed flush.
THEOREM PersistedStays == Spec => PersistedForever
<1>1. VInv /\ [Next]_vars =>
        [ \A t \in DOMAIN disk.map :
            t \in DOMAIN disk.map' /\ disk.map'[t] = disk.map[t] ]_vars
  BY StepKeepsFile
<1> QED BY <1>1, VaultInvariance, PTL DEF Spec, PersistedForever

=============================================================================
