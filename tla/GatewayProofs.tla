---------------------------- MODULE GatewayProofs ----------------------------
(***************************************************************************)
(* Proofs about Gateway, for every set of requests and values and every    *)
(* bound: what the handlers promise, from what the log and the vault they  *)
(* share promise.  The theorems about the two components are used as they  *)
(* stand: every step of the gateway is a step of its log and of its vault, *)
(* or leaves them alone, so their inductive invariants hold here too.      *)
(***************************************************************************)
EXTENDS Gateway, FiniteSetTheorems, TLAPS

LP == INSTANCE AuditLogProofs WITH
        Entries <- EntriesOf(Requests),
        Long <- EntriesOf(LongRequests),
        MaxLines <- Cardinality(Requests),
        MaxFaults <- MaxLogFaults, faults <- logFaults

VP == INSTANCE VaultProofs WITH
        Kinds <- {Kind}, Lettered <- {Kind}, MaxFaults <- MaxVaultFaults, faults <- vaultFaults

-----------------------------------------------------------------------------
(* The components and their assumptions *)

\* The bounds of the gateway are bounds of the log and of the vault.
LEMMA ComponentAssumptions ==
    LP!BoundsAssumption /\ LP!LongAssumption /\ VP!BoundsAssumption /\ VP!KindsAssumption
<1>1. Cardinality(Requests) \in Nat
  BY RequestsAssumption, FS_CardinalityType
<1>2. EntriesOf(LongRequests) \subseteq EntriesOf(Requests)
  BY RequestsAssumption DEF EntriesOf
<1> QED
  BY <1>1, <1>2, FaultsAssumption
     DEF LP!BoundsAssumption, LP!LongAssumption, VP!BoundsAssumption, VP!KindsAssumption

\* The handlers take the operations of the log the proofs are about.
LEMMA SameLog ==
    /\ L!Init => LP!Init
    /\ L!Open => LP!Open
    /\ L!Sync => LP!Sync
    /\ L!SyncFails => LP!SyncFails
    /\ L!Crash => LP!Crash
    /\ \A e : L!Write(e) => LP!Write(e)
    /\ \A e, torn : L!WriteFails(e, torn) => LP!WriteFails(e, torn)
    /\ L!Torn = LP!Torn /\ L!NoRecord = LP!NoRecord
BY DEF L!Init, L!Open, L!Sync, L!SyncFails, L!Crash, L!Write, L!WriteFails, L!CanAppend, L!AddLine,
       L!AddTorn, L!NextRecord, L!NewRecord, L!chainHash, L!Joined, L!NL, L!Corrupt, L!NoRecord, L!Closed, L!genesisHash,
       L!IsRecord, L!LastSeq, L!LastHash, L!Torn, L!Scans, L!Takes,
       LP!Init, LP!Open, LP!Sync, LP!SyncFails, LP!Crash, LP!Write, LP!WriteFails, LP!CanAppend,
       LP!AddLine, LP!AddTorn, LP!NextRecord, LP!NewRecord, LP!chainHash, LP!Joined, LP!NL, LP!Corrupt, LP!NoRecord,
       LP!Closed, LP!genesisHash, LP!IsRecord, LP!LastSeq, LP!LastHash, LP!Torn, LP!Scans, LP!Takes

\* The verifier is the one the proofs are about.
LEMMA SameVerifier == L!VerifyOK(file) => LP!VerifyOK(file)
BY DEF L!VerifyOK, L!ChainOK, L!Scans, L!Takes, L!LinkOK, L!IsRecord, L!genesisHash, L!chainHash, L!Joined, L!NL, L!Corrupt,
       LP!VerifyOK, LP!ChainOK, LP!Scans, LP!Takes, LP!LinkOK, LP!IsRecord, LP!genesisHash, LP!chainHash, LP!Joined, LP!NL, LP!Corrupt

\* And so with the operations of the vault.
LEMMA SameVault ==
    /\ V!Init => VP!Init
    /\ V!Open => VP!Open
    /\ V!FlushWrite => VP!FlushWrite
    /\ V!FlushWriteFails => VP!FlushWriteFails
    /\ V!FlushRename => VP!FlushRename
    /\ V!FlushRenameFails => VP!FlushRenameFails
    /\ V!Crash => VP!Crash
    /\ \A v : V!Assign(Kind, v) => VP!Assign(Kind, v)
BY DEF V!Init, V!Open, V!FlushWrite, V!FlushWriteFails, V!FlushRename, V!FlushRenameFails, V!Crash,
       V!Assign, V!AssignKnown, V!AssignNew, V!Unlocked, V!Token, V!Put, V!ReverseOf, V!CountersOf,
       V!Numbers, V!NoMap, V!Whole, V!Torn, V!memory, V!vars,
       VP!Init, VP!Open, VP!FlushWrite, VP!FlushWriteFails, VP!FlushRename, VP!FlushRenameFails, VP!Crash,
       VP!Assign, VP!AssignKnown, VP!AssignNew, VP!Unlocked, VP!Token, VP!Put, VP!ReverseOf,
       VP!CountersOf, VP!Numbers, VP!NoMap, VP!Whole, VP!Torn, VP!memory, VP!vars

-----------------------------------------------------------------------------
(* The invariant *)

\* Where a handler of a running process is.
Active == Labels \ (Ended \cup {"idle"})

\* The part of the state the handlers have for themselves keeps its type, and a
\* handler is at work only while the process runs.
HandlersOK ==
    /\ pc \in [Requests -> Labels]
    /\ todo \in [Requests -> SUBSET Values]
    /\ out \in [Requests -> SUBSET Items]
    /\ \A r \in Requests : pc[r] \in Active => running

\* The record in flight is that of the handler that waits for it.
OwnsInflight ==
    \A r \in Requests : pc[r] = "sync" => inflight # L!NoRecord /\ inflight.entry = Entry(r)

HasRecord(e) == \E rec \in acked : rec.entry = e

\* What is about to leave, or has left, has a record whose Append returned.
Recorded ==
    /\ \A r \in Requests : pc[r] = "forward" => HasRecord(Entry(r))
    /\ \A e \in forwarded : HasRecord(e)

\* What a handler holds besides values is tokens the vault has given out.
TokensKnown ==
    \A r \in Requests : pc[r] \in Active => out[r] \subseteq Values \cup DOMAIN fwd

\* Past its flush, what a handler holds is in the vault file.
SavedBehindFlush ==
    vaultFaults = 0 =>
        \A r \in Requests : pc[r] \in {"append", "sync", "forward", "reply"} =>
            \A t \in out[r] \cap DOMAIN fwd : Saved(<<t, fwd[t]>>)

\* What a stream has shown is in memory until its flush, and then in the file.
StreamKnown ==
    \A s \in streamed :
        /\ s[1] \in Requests
        /\ pc[s[1]] \in {"sse", "sseEnd", "flushStream", "flushingStream", "done", "lost"}
        /\ pc[s[1]] \in Active => s[2] \in DOMAIN fwd /\ fwd[s[2]] = s[3]
        /\ vaultFaults = 0 /\ pc[s[1]] = "done" => Saved(<<s[2], s[3]>>)

GInv ==
    /\ LP!IInv /\ VP!VInv
    /\ HandlersOK /\ OwnsInflight /\ Recorded /\ tailTorn = FALSE
    /\ TokensKnown /\ SavedBehindFlush /\ EscapedIsSaved /\ StreamKnown

-----------------------------------------------------------------------------
(* What the steps of a handler do *)

\* What is in memory stays there.
MemoryGrows == \A t \in DOMAIN fwd : t \in DOMAIN fwd' /\ fwd'[t] = fwd[t]

\* What is in the vault file stays there.
FileGrows ==
    \A t \in DOMAIN disk.map : t \in DOMAIN disk.map' /\ disk.map'[t] = disk.map[t]

\* What the invariant says of the vault's maps, in the words of this module.
LEMMA VaultFacts ==
    ASSUME VP!VInv
    PROVE  /\ DOMAIN fwd \subseteq {Kind} \X (Nat \ {0})
           /\ vaultFaults \in Nat
           /\ running /\ ~dirty => disk.map = fwd
           /\ flushing => running /\ tmp.map = fwd
           /\ running => \A v : <<Kind, v>> \in DOMAIN rev =>
                            /\ rev[<<Kind, v>>] \in DOMAIN fwd
                            /\ fwd[rev[<<Kind, v>>]] = v
           /\ running => \A t \in DOMAIN fwd : t[2] <= counter[Kind]
           /\ counter[Kind] \in Nat
           /\ running \in BOOLEAN
BY ComponentAssumptions
   DEF VP!VInv, VP!TypeOK, VP!IsMap, VP!Tokens, VP!CleanIsSaved, VP!FlushSound, VP!Whole,
       VP!MapsInverse, VP!CounterCovers, VP!BoundsAssumption

\* A step of the vault keeps its invariant and its file.
LEMMA VaultStep ==
    ASSUME VP!VInv, [VP!Next]_VP!vars
    PROVE  VP!VInv' /\ FileGrows
BY ComponentAssumptions, VP!NextVInv, VP!StepKeepsFile DEF FileGrows

\* A step of the log keeps its invariant.
LEMMA LogStep ==
    ASSUME LP!IInv, [LP!Next]_LP!vars
    PROVE  LP!IInv'
BY ComponentAssumptions, LP!NextIInv

\* A value is replaced by a token that stands for it, new or known; memory only grows.
LEMMA ReplaceEffect ==
    ASSUME VP!VInv, NEW r \in Requests, NEW v \in Values, Replace(r, v)
    PROVE  /\ VP!VInv' /\ FileGrows /\ MemoryGrows
           /\ TokenFor(v) \in DOMAIN fwd' /\ fwd'[TokenFor(v)] = v
           /\ UNCHANGED <<running, disk, vaultFaults, crashes>>
<1>1. VP!Assign(Kind, v) /\ running
  BY SameVault DEF Replace, V!Assign, V!AssignKnown, V!AssignNew, V!Unlocked
<1>2. VP!VInv' /\ FileGrows
  BY <1>1, VaultStep DEF VP!Next
<1>3. CASE VP!AssignKnown(Kind, v)
  <2>1. UNCHANGED <<running, fwd, disk, vaultFaults, crashes>> /\ <<Kind, v>> \in DOMAIN rev
    BY <1>3 DEF VP!AssignKnown, VP!vars
  <2>2. TokenFor(v) \in DOMAIN fwd /\ fwd[TokenFor(v)] = v
    BY <1>1, <2>1, VaultFacts DEF TokenFor
  <2> QED
    BY <1>2, <2>1, <2>2 DEF MemoryGrows
<1>4. CASE VP!AssignNew(Kind, v)
  <2> DEFINE tok == <<Kind, counter[Kind] + 1>>
  <2>1. /\ UNCHANGED <<running, disk, vaultFaults, crashes>>
        /\ TokenFor(v) = tok
        /\ fwd' = VP!Put(fwd, tok, v)
    BY <1>4 DEF VP!AssignNew, VP!Token, TokenFor, V!Token
  <2>2. tok \notin DOMAIN fwd
    BY <1>1, VaultFacts
  <2>3. /\ DOMAIN fwd' = DOMAIN fwd \cup {tok} /\ fwd'[tok] = v
        /\ \A t \in DOMAIN fwd : fwd'[t] = fwd[t]
    BY <2>1, <2>2 DEF VP!Put
  <2> QED
    BY <1>2, <2>1, <2>3 DEF MemoryGrows
<1> QED
  BY <1>1, <1>3, <1>4 DEF VP!Assign

\* A flush leaves memory alone; when the handler goes on, memory is in the file or a
\* flush has failed.
LEMMA FlushEffect ==
    ASSUME VP!VInv, NEW r \in Requests, NEW here, NEW inside, NEW next,
           FlushVault(r, here, inside, next)
    PROVE  /\ VP!VInv' /\ FileGrows
           /\ UNCHANGED <<fwd, running, crashes>>
           /\ vaultFaults' = 0 => vaultFaults = 0
           /\ \/ pc[r] = here /\ Goto(r, inside)
              \/ /\ pc[r] \in {here, inside} /\ Goto(r, next)
                 /\ vaultFaults' = 0 => disk'.map = fwd
<1>1. CASE pc[r] = here /\ V!Unlocked /\ ~dirty /\ Goto(r, next) /\ UNCHANGED <<vaultVars, crashes>>
  <2>1. UNCHANGED VP!vars /\ disk.map = fwd
    BY <1>1, VaultFacts DEF vaultVars, VP!vars, V!Unlocked
  <2> QED
    BY <1>1, <2>1, VaultStep DEF VP!vars
<1>2. CASE pc[r] = here /\ V!FlushWrite /\ Goto(r, inside)
  <2>1. VP!FlushWrite
    BY <1>2, SameVault
  <2> QED
    BY <1>2, <2>1, VaultStep DEF VP!Next, VP!FlushWrite, VP!memory
<1>3. CASE pc[r] = here /\ V!FlushWriteFails /\ Goto(r, next)
  <2>1. VP!FlushWriteFails
    BY <1>3, SameVault
  <2>2. vaultFaults' # 0
    BY <2>1, VaultFacts DEF VP!FlushWriteFails
  <2> QED
    BY <1>3, <2>1, <2>2, VaultStep DEF VP!Next, VP!FlushWriteFails, VP!memory
<1>4. CASE pc[r] = inside /\ V!FlushRename /\ Goto(r, next)
  <2>1. VP!FlushRename
    BY <1>4, SameVault
  <2>2. disk'.map = fwd
    BY <2>1, VaultFacts DEF VP!FlushRename
  <2> QED
    BY <1>4, <2>1, <2>2, VaultStep DEF VP!Next, VP!FlushRename
<1>5. CASE pc[r] = inside /\ V!FlushRenameFails /\ Goto(r, next)
  <2>1. VP!FlushRenameFails
    BY <1>5, SameVault
  <2>2. vaultFaults' # 0
    BY <2>1, VaultFacts DEF VP!FlushRenameFails
  <2> QED
    BY <1>5, <2>1, <2>2, VaultStep DEF VP!Next, VP!FlushRenameFails, VP!memory
<1> QED
  BY <1>1, <1>2, <1>3, <1>4, <1>5 DEF FlushVault

-----------------------------------------------------------------------------
(* Every step keeps the invariant *)

\* A handler that goes on leaves the others where they are.
LEMMA Goes ==
    ASSUME HandlersOK, NEW r \in Requests, NEW label \in Labels, Goto(r, label)
    PROVE  /\ pc' \in [Requests -> Labels] /\ pc'[r] = label
           /\ \A q \in Requests : q # r => pc'[q] = pc[q]
BY DEF HandlersOK, Goto

\* A step that touches neither component keeps their invariants.
LEMMA ComponentsIdle ==
    ASSUME LP!IInv, VP!VInv, UNCHANGED <<logVars, vaultVars, crashes>>
    PROVE  LP!IInv' /\ VP!VInv'
<1>1. UNCHANGED LP!vars /\ UNCHANGED VP!vars
  BY DEF LP!vars, VP!vars, logVars, vaultVars
<1> QED
  BY <1>1, LogStep, VaultStep

\* Handlers that only go on: a body, an answer or a stream is at its end, an answer begins or
\* an upstream call fails.
GoesOn(r) ==
    \/ RedactDone(r) \/ RedactAnswerDone(r) \/ StreamEnds(r) \/ StreamStops(r) \/ UpstreamFails(r)
    \/ \E type \in Answers : UpstreamAnswers(r, type)

\* Going on keeps the invariant.
LEMMA GoesOnGInv ==
    ASSUME GInv, NEW r \in Requests, GoesOn(r)
    PROVE  GInv'
<1>1. /\ UNCHANGED <<logVars, vaultVars, crashes, todo, out, history>>
      /\ \/ pc[r] = "redact" /\ todo[r] = {} /\ Goto(r, "flush")
         \/ pc[r] = "json" /\ Goto(r, "flushAnswer")
         \/ pc[r] = "sse" /\ Goto(r, "sseEnd")
         \/ pc[r] = "sseEnd" /\ Goto(r, "flushStream")
         \/ /\ pc[r] \in {"await", "body"}
            /\ Goto(r, "done") \/ Goto(r, "body") \/ Goto(r, "sse")
  BY AnswersAssumption
     DEF GoesOn, RedactDone, RedactAnswerDone, StreamEnds, StreamStops, UpstreamFails, UpstreamAnswers
<1>2. PICK label \in {"flush", "flushAnswer", "sseEnd", "flushStream", "done", "body", "sse"} :
        /\ Goto(r, label)
        /\ pc[r] = "sse" => label = "sseEnd"
        /\ pc[r] = "sseEnd" => label = "flushStream"
        /\ pc[r] \in {"redact", "json", "sse", "sseEnd", "await", "body"}
  BY <1>1
<1>3. /\ pc' \in [Requests -> Labels] /\ pc'[r] = label
      /\ \A q \in Requests : q # r => pc'[q] = pc[q]
  BY <1>2, Goes DEF GInv, Labels, Ended
<1>4. LP!IInv' /\ VP!VInv'
  BY <1>1, ComponentsIdle DEF GInv
<1>5. HandlersOK'
  BY <1>1, <1>2, <1>3 DEF GInv, HandlersOK, vaultVars, Active, Labels, Ended
<1>6. OwnsInflight' /\ Recorded'
  BY <1>1, <1>3 DEF GInv, OwnsInflight, Recorded, HasRecord, logVars, history, Entry
<1>7. tailTorn' = FALSE
  BY <1>1 DEF GInv, logVars
<1>8. TokensKnown' /\ SavedBehindFlush' /\ EscapedIsSaved'
  BY <1>1, <1>2, <1>3 DEF GInv, TokensKnown, SavedBehindFlush, EscapedIsSaved, Saved, vaultVars, history,
                    Active, Labels, Ended
<1>9. StreamKnown'
  <2>1. UNCHANGED <<streamed, fwd, disk, vaultFaults>>
    BY <1>1 DEF vaultVars, history
  <2>2. ASSUME NEW s \in streamed, s[1] = r
        PROVE  pc'[r] \in {"sseEnd", "flushStream"} /\ s[2] \in DOMAIN fwd /\ fwd[s[2]] = s[3]
    BY <1>2, <1>3, <2>2 DEF GInv, StreamKnown, Active, Labels, Ended
  <2>3. ASSUME NEW s \in streamed, s[1] # r
        PROVE  s[1] \in Requests /\ pc'[s[1]] = pc[s[1]]
    BY <1>3, <2>3 DEF GInv, StreamKnown
  <2> QED
    BY <2>1, <2>2, <2>3 DEF GInv, StreamKnown, Saved
<1> QED
  BY <1>4, <1>5, <1>6, <1>7, <1>8, <1>9 DEF GInv

\* A client's body arrives.
LEMMA ReceiveGInv ==
    ASSUME GInv, NEW r \in Requests, NEW body \in SUBSET Values, NEW isJSON \in BOOLEAN,
           Receive(r, body, isJSON)
    PROVE  GInv'
<1>1. /\ UNCHANGED <<logVars, vaultVars, crashes, history>>
      /\ pc[r] = "idle" /\ running /\ Goto(r, "redact")
  BY DEF Receive
<1>2. /\ pc' \in [Requests -> Labels] /\ pc'[r] = "redact"
      /\ \A q \in Requests : q # r => pc'[q] = pc[q]
  BY <1>1, Goes DEF GInv, Labels, Ended
<1>3. /\ out'[r] = body
      /\ \A q \in Requests : q # r => out'[q] = out[q]
      /\ out' \in [Requests -> SUBSET Items] /\ todo' \in [Requests -> SUBSET Values]
  BY DEF Receive, GInv, HandlersOK, Items
<1>4. LP!IInv' /\ VP!VInv'
  BY <1>1, ComponentsIdle DEF GInv
<1>5. HandlersOK'
  BY <1>1, <1>2, <1>3 DEF GInv, HandlersOK, vaultVars
<1>6. OwnsInflight' /\ Recorded'
  BY <1>1, <1>2, <1>3 DEF GInv, OwnsInflight, Recorded, HasRecord, logVars, history, Entry
<1>7. tailTorn' = FALSE
  BY <1>1 DEF GInv, logVars
<1>8. TokensKnown' /\ SavedBehindFlush' /\ EscapedIsSaved'
  BY <1>1, <1>2, <1>3 DEF GInv, TokensKnown, SavedBehindFlush, EscapedIsSaved, Saved, vaultVars, history
<1>9. StreamKnown'
  <2>1. \A s \in streamed : s[1] \in Requests /\ s[1] # r
    BY <1>1 DEF GInv, StreamKnown
  <2> QED
    BY <1>1, <1>2, <2>1 DEF GInv, StreamKnown, Saved, vaultVars, history
<1> QED
  BY <1>4, <1>5, <1>6, <1>7, <1>8, <1>9 DEF GInv

\* The body of an answer arrives, or a part of a stream.
LEMMA ArrivesGInv ==
    ASSUME GInv, NEW r \in Requests, NEW values \in SUBSET Values, NEW isJSON \in BOOLEAN,
           BodyArrives(r, values, isJSON) \/ \E v \in Values : StreamArrives(r, v)
    PROVE  GInv'
<1>1. UNCHANGED <<logVars, vaultVars, crashes, history>> /\ pc[r] \in {"body", "sse"}
  BY DEF BodyArrives, StreamArrives
<1>2. PICK label \in {"json", "reply", "sse"} :
        /\ pc' = [pc EXCEPT ![r] = label]
        /\ label = "sse" <=> pc[r] = "sse"
  BY DEF BodyArrives, StreamArrives, Goto, GInv, HandlersOK
<1>3. /\ pc' \in [Requests -> Labels] /\ pc'[r] = label
      /\ \A q \in Requests : q # r => pc'[q] = pc[q]
  BY <1>2, Goes DEF GInv, Labels, Ended, Goto
<1>4. /\ label # "sse" => out'[r] \subseteq Values
      /\ label = "sse" => out'[r] = out[r]
      /\ \A q \in Requests : q # r => out'[q] = out[q]
      /\ out' \in [Requests -> SUBSET Items] /\ todo' \in [Requests -> SUBSET Values]
  <2>1. CASE BodyArrives(r, values, isJSON)
    BY <1>2, <2>1 DEF BodyArrives, GInv, HandlersOK, Items
  <2>2. CASE \E v \in Values : StreamArrives(r, v)
    BY <1>2, <2>2 DEF StreamArrives, GInv, HandlersOK
  <2> QED
    BY <2>1, <2>2
<1>5. LP!IInv' /\ VP!VInv'
  BY <1>1, ComponentsIdle DEF GInv
<1>6. HandlersOK'
  BY <1>1, <1>2, <1>3, <1>4 DEF GInv, HandlersOK, vaultVars, Active, Labels, Ended
<1>7. OwnsInflight' /\ Recorded'
  BY <1>1, <1>2, <1>3, <1>4 DEF GInv, OwnsInflight, Recorded, HasRecord, logVars, history, Entry
<1>8. tailTorn' = FALSE
  BY <1>1 DEF GInv, logVars
<1>9. Values \cap DOMAIN fwd = {}
  BY VaultFacts, TokensAreNoValues DEF GInv
<1>10. TokensKnown' /\ SavedBehindFlush' /\ EscapedIsSaved'
  BY <1>1, <1>2, <1>3, <1>4, <1>9
     DEF GInv, TokensKnown, SavedBehindFlush, EscapedIsSaved, Saved, vaultVars, history, Active, Labels, Ended
<1>11. StreamKnown'
  <2>1. UNCHANGED <<streamed, fwd, disk, vaultFaults>>
    BY <1>1 DEF vaultVars, history
  <2>2. \A s \in streamed : s[1] \in Requests /\ pc'[s[1]] = pc[s[1]]
    BY <1>1, <1>2, <1>3 DEF GInv, StreamKnown
  <2> QED
    BY <2>1, <2>2 DEF GInv, StreamKnown, Saved
<1> QED
  BY <1>5, <1>6, <1>7, <1>8, <1>10, <1>11 DEF GInv

\* A body goes to the provider, or an answer to the client, with what was saved of it.
LEMMA LeavesGInv ==
    ASSUME GInv, NEW r \in Requests, Forward(r) \/ ForwardFails(r) \/ Reply(r)
    PROVE  GInv'
<1>1. /\ UNCHANGED <<logVars, vaultVars, crashes, streamed>>
      /\ escaped' = escaped \/ escaped' = escaped \cup Pairs(out[r])
      /\ out' = [out EXCEPT ![r] = {}] /\ todo' \in {todo, [todo EXCEPT ![r] = {}]}
      /\ \/ pc[r] = "forward" /\ Goto(r, "await") /\ forwarded' = forwarded \cup {Entry(r)}
         \/ pc[r] = "forward" /\ Goto(r, "rejected") /\ forwarded' = forwarded
         \/ pc[r] = "reply" /\ Goto(r, "done") /\ forwarded' = forwarded
  BY DEF Forward, ForwardFails, Reply, Return, history
<1>2. PICK label \in {"await", "rejected", "done"} : Goto(r, label)
  BY <1>1
<1>3. /\ out'[r] = {} /\ \A q \in Requests : q # r => out'[q] = out[q]
      /\ out' \in [Requests -> SUBSET Items] /\ todo' \in [Requests -> SUBSET Values]
  BY <1>1 DEF GInv, HandlersOK
<1>4. /\ pc' \in [Requests -> Labels] /\ pc'[r] = label
      /\ \A q \in Requests : q # r => pc'[q] = pc[q]
  BY <1>2, Goes DEF GInv, Labels, Ended
<1>5. LP!IInv' /\ VP!VInv'
  BY <1>1, ComponentsIdle DEF GInv
<1>6. HandlersOK'
  BY <1>1, <1>3, <1>4 DEF GInv, HandlersOK, vaultVars, Active, Labels, Ended
<1>7. OwnsInflight'
  BY <1>1, <1>3, <1>4 DEF GInv, OwnsInflight, logVars, Entry
<1>8. Recorded'
  BY <1>1, <1>3, <1>4 DEF GInv, Recorded, HasRecord, logVars, Entry
<1>9. tailTorn' = FALSE
  BY <1>1 DEF GInv, logVars
<1>10. TokensKnown' /\ SavedBehindFlush'
  BY <1>1, <1>3, <1>4 DEF GInv, TokensKnown, SavedBehindFlush, Saved, vaultVars, Active, Labels, Ended
<1>11. EscapedIsSaved'
  BY <1>1 DEF GInv, SavedBehindFlush, EscapedIsSaved, Saved, Pairs, vaultVars
<1>12. StreamKnown'
  <2>1. \A s \in streamed : s[1] \in Requests /\ s[1] # r
    BY <1>1 DEF GInv, StreamKnown
  <2> QED
    BY <1>1, <1>4, <2>1 DEF GInv, StreamKnown, Saved, vaultVars
<1> QED
  BY <1>5, <1>6, <1>7, <1>8, <1>9, <1>10, <1>11, <1>12 DEF GInv

\* One value of a body, an answer or a stream is replaced by its token.
ReplacesIn(r, v) == RedactValue(r, v) \/ RedactAnswer(r, v) \/ StreamValue(r, v)

\* Replacing a value keeps the invariant.
LEMMA ReplacesGInv ==
    ASSUME GInv, NEW r \in Requests, NEW v \in Values, ReplacesIn(r, v)
    PROVE  GInv'
<1> DEFINE tok == TokenFor(v)
<1>1. /\ UNCHANGED <<logVars, pc, forwarded, escaped>> /\ Replace(r, v)
      /\ \/ /\ pc[r] \in {"redact", "json"} /\ streamed' = streamed
            /\ out' = [out EXCEPT ![r] = (@ \ {v}) \cup {tok}]
         \/ /\ pc[r] \in {"sse", "sseEnd"} /\ streamed' = streamed \cup {<<r, tok, v>>}
            /\ out' = out
  BY DEF ReplacesIn, RedactValue, RedactAnswer, ReplaceHeld, StreamValue, history
<1>2. /\ VP!VInv' /\ FileGrows /\ MemoryGrows
      /\ tok \in DOMAIN fwd' /\ fwd'[tok] = v
      /\ UNCHANGED <<running, disk, vaultFaults, crashes>>
  BY <1>1, ReplaceEffect DEF GInv
<1>3. /\ DOMAIN fwd' \subseteq {Kind} \X (Nat \ {0})
      /\ Values \cap DOMAIN fwd' = {}
  <2>1. DOMAIN fwd' \subseteq {Kind} \X (Nat \ {0})
    BY <1>2 DEF VP!VInv, VP!TypeOK, VP!IsMap, VP!Tokens
  <2> QED
    BY <2>1, TokensAreNoValues
<1>4. LP!IInv'
  BY <1>1, <1>2, LogStep DEF GInv, LP!vars, logVars
<1>5. /\ out'[r] \subseteq out[r] \cup {tok}
      /\ \A q \in Requests : q # r => out'[q] = out[q]
  BY <1>1 DEF GInv, HandlersOK
<1>6. HandlersOK'
  <2>1. tok \in Items
    BY <1>2, <1>3 DEF Items
  <2>2. todo' \in [Requests -> SUBSET Values]
    BY <1>1 DEF GInv, HandlersOK, Replace
  <2>3. out' \in [Requests -> SUBSET Items]
    BY <1>1, <2>1 DEF GInv, HandlersOK
  <2> QED
    BY <1>1, <1>2, <2>2, <2>3 DEF GInv, HandlersOK
<1>7. OwnsInflight' /\ Recorded'
  BY <1>1, <1>5 DEF GInv, OwnsInflight, Recorded, HasRecord, Entry, logVars
<1>8. tailTorn' = FALSE
  BY <1>1 DEF GInv, logVars
<1>9. TokensKnown'
  BY <1>1, <1>2, <1>5 DEF GInv, TokensKnown, MemoryGrows
<1>10. SavedBehindFlush'
  <2> SUFFICES ASSUME vaultFaults = 0, NEW q \in Requests,
                      pc[q] \in {"append", "sync", "forward", "reply"},
                      NEW t \in out'[q] \cap DOMAIN fwd'
               PROVE  Saved(<<t, fwd[t]>>)'
    BY <1>1, <1>2 DEF SavedBehindFlush
  <2>1. q # r /\ t \in out[q] /\ t \notin Values
    BY <1>1, <1>3, <1>5
  <2>2. t \in DOMAIN fwd /\ fwd'[t] = fwd[t]
    BY <1>2, <2>1 DEF GInv, TokensKnown, MemoryGrows, Active, Labels, Ended
  <2> QED
    BY <1>2, <2>1, <2>2 DEF GInv, SavedBehindFlush, Saved
<1>11. EscapedIsSaved'
  BY <1>1, <1>2 DEF GInv, EscapedIsSaved, Saved
<1>12. StreamKnown'
  <2>1. ASSUME NEW s \in streamed
        PROVE  /\ s[1] \in Requests
               /\ pc[s[1]] \in {"sse", "sseEnd", "flushStream", "flushingStream", "done", "lost"}
               /\ pc[s[1]] \in Active => s[2] \in DOMAIN fwd' /\ fwd'[s[2]] = s[3]
               /\ vaultFaults = 0 /\ pc[s[1]] = "done" => Saved(<<s[2], s[3]>>)
    BY <1>2 DEF GInv, StreamKnown, MemoryGrows
  <2> QED
    BY <1>1, <1>2, <2>1 DEF StreamKnown, Saved
<1> QED
  BY <1>2, <1>4, <1>6, <1>7, <1>8, <1>9, <1>10, <1>11, <1>12 DEF GInv

\* A flush, and what the handler does next.
LEMMA SavingGInv ==
    ASSUME GInv, NEW r \in Requests, Saving(r)
    PROVE  GInv'
<1>1. PICK flush \in { <<"flush", "flushing", "append">>,
                       <<"flushAnswer", "flushingAnswer", "reply">>,
                       <<"flushStream", "flushingStream", "done">> } :
        FlushVault(r, flush[1], flush[2], flush[3])
  BY DEF Saving, FlushRequest, FlushAnswer, FlushStream
<1>2. /\ VP!VInv' /\ FileGrows
      /\ UNCHANGED <<fwd, running, crashes, logVars, todo, out, history>>
      /\ vaultFaults' = 0 => vaultFaults = 0
      /\ \/ pc[r] = flush[1] /\ Goto(r, flush[2])
         \/ /\ pc[r] \in {flush[1], flush[2]} /\ Goto(r, flush[3])
            /\ vaultFaults' = 0 => disk'.map = fwd
  <2>1. UNCHANGED <<logVars, todo, out, history>>
    BY <1>1 DEF FlushVault
  <2>2. VP!VInv
    BY DEF GInv
  <2> QED
    BY <1>1, <2>1, <2>2, FlushEffect
<1>3. PICK label \in {flush[2], flush[3]} :
        /\ Goto(r, label)
        /\ label = flush[3] /\ vaultFaults' = 0 => disk'.map = fwd
        /\ pc[r] \in {flush[1], flush[2]}
  BY <1>2
<1>4. /\ pc' \in [Requests -> Labels] /\ pc'[r] = label
      /\ \A q \in Requests : q # r => pc'[q] = pc[q]
  BY <1>3, Goes DEF GInv, Labels, Ended
<1>5. LP!IInv'
  BY <1>2, LogStep DEF GInv, LP!vars, logVars
<1>6. HandlersOK'
  BY <1>2, <1>3, <1>4 DEF GInv, HandlersOK, Active, Labels, Ended
<1>7. OwnsInflight' /\ Recorded'
  BY <1>2, <1>4 DEF GInv, OwnsInflight, Recorded, HasRecord, Entry, logVars, history
<1>8. tailTorn' = FALSE
  BY <1>2 DEF GInv, logVars
<1>9. TokensKnown'
  BY <1>2, <1>3, <1>4 DEF GInv, TokensKnown, Active, Labels, Ended
<1>10. \A pair : Saved(pair) => Saved(pair)'
  BY <1>2 DEF Saved, FileGrows
<1>11. SavedBehindFlush' /\ EscapedIsSaved'
  <2>1. vaultFaults' = 0 /\ label = flush[3] => \A t \in DOMAIN fwd : Saved(<<t, fwd[t]>>)'
    BY <1>2, <1>3 DEF Saved
  <2>2. EscapedIsSaved'
    BY <1>2, <1>10 DEF GInv, EscapedIsSaved, history
  <2>3. SavedBehindFlush'
    BY <1>2, <1>3, <1>4, <1>10, <2>1 DEF GInv, SavedBehindFlush
  <2> QED
    BY <2>2, <2>3
<1>12. StreamKnown'
  <2>1. streamed' = streamed /\ fwd' = fwd
    BY <1>2 DEF history
  <2>2. ASSUME NEW s \in streamed, s[1] # r
        PROVE  /\ s[1] \in Requests
               /\ pc'[s[1]] \in {"sse", "sseEnd", "flushStream", "flushingStream", "done", "lost"}
               /\ pc'[s[1]] \in Active => s[2] \in DOMAIN fwd /\ fwd[s[2]] = s[3]
               /\ vaultFaults' = 0 /\ pc'[s[1]] = "done" => Saved(<<s[2], s[3]>>)'
    BY <1>2, <1>4, <1>10, <2>2 DEF GInv, StreamKnown
  <2>3. ASSUME NEW s \in streamed, s[1] = r
        PROVE  /\ label \in {"flushingStream", "done"}
               /\ s[2] \in DOMAIN fwd /\ fwd[s[2]] = s[3]
               /\ vaultFaults' = 0 /\ label = "done" => Saved(<<s[2], s[3]>>)'
    BY <1>3, <2>3 DEF GInv, StreamKnown, Saved, Active, Labels, Ended
  <2> QED
    BY <1>4, <2>1, <2>2, <2>3 DEF StreamKnown
<1> QED
  BY <1>2, <1>5, <1>6, <1>7, <1>8, <1>9, <1>11, <1>12 DEF GInv

\* What the three outcomes of an Append do to the log.
LEMMA RecordingEffect ==
    ASSUME GInv, NEW r \in Requests, Recording(r)
    PROVE  /\ LP!IInv' /\ UNCHANGED <<crashes, tailTorn>> /\ acked \subseteq acked'
           /\ \/ /\ pc[r] = "append" /\ Goto(r, "sync") /\ inflight = L!NoRecord
                 /\ inflight' # L!NoRecord /\ inflight'.entry = Entry(r)
              \/ pc[r] = "sync" /\ Goto(r, "forward") /\ acked' = acked \cup {inflight}
              \/ /\ pc[r] \in {"append", "sync"} /\ Goto(r, "rejected")
                 /\ inflight' = L!NoRecord
                 /\ pc[r] = "append" => inflight = L!NoRecord
<1>1. LP!IInv /\ Entry(r) \in EntriesOf(Requests) /\ L!NoRecord = LP!NoRecord
  BY SameLog DEF GInv, HandlersOK, Entry, EntriesOf
<1>2. CASE AppendWrite(r)
  <2>1. LP!Write(Entry(r)) /\ pc[r] = "append" /\ Goto(r, "sync")
    BY <1>2, SameLog DEF AppendWrite
  <2>2. LP!IInv'
    BY <1>1, <2>1, LogStep DEF LP!Next, LP!Working
  <2>3. /\ inflight = LP!NoRecord /\ inflight' = LP!NextRecord(Entry(r))
        /\ UNCHANGED <<acked, crashes, tailTorn>>
    BY <2>1 DEF LP!Write, LP!CanAppend
  <2>4. inflight' # LP!NoRecord /\ inflight'.entry = Entry(r)
    <3>1. inflight' # LP!NoRecord
      BY <2>3, ComponentAssumptions, LP!RecordDistinct DEF LP!NextRecord
    <3> QED
      BY <2>3, <3>1 DEF LP!NextRecord, LP!NewRecord
  <2> QED
    BY <1>1, <2>1, <2>2, <2>3, <2>4
<1>3. CASE AppendSync(r)
  <2>1. LP!Sync /\ pc[r] = "sync" /\ Goto(r, "forward")
    BY <1>3, SameLog DEF AppendSync
  <2>2. LP!IInv'
    BY <1>1, <2>1, LogStep DEF LP!Next, LP!Working
  <2> QED
    BY <2>1, <2>2 DEF LP!Sync
<1>4. CASE AppendFails(r) /\ pc[r] = "append"
  <2>1. PICK torn \in L!Torn : L!WriteFails(Entry(r), torn)
    BY <1>4 DEF AppendFails
  <2>2. LP!WriteFails(Entry(r), torn) /\ torn \in LP!Torn
    BY <2>1, SameLog
  <2>3. LP!IInv'
    BY <1>1, <2>2, LogStep DEF LP!Next, LP!Working
  <2> QED
    BY <1>1, <1>4, <2>2, <2>3 DEF LP!WriteFails, LP!CanAppend, AppendFails, Return
<1>5. CASE AppendFails(r) /\ pc[r] = "sync"
  <2>1. LP!SyncFails /\ Goto(r, "rejected")
    BY <1>5, SameLog DEF AppendFails, Return
  <2>2. LP!IInv'
    BY <1>1, <2>1, LogStep DEF LP!Next, LP!Working
  <2> QED
    BY <1>1, <1>5, <2>1, <2>2 DEF LP!SyncFails
<1> QED
  BY <1>2, <1>3, <1>4, <1>5 DEF Recording, AppendFails

\* A record is made of the body, or the call is rejected.
LEMMA RecordingGInv ==
    ASSUME GInv, NEW r \in Requests, Recording(r)
    PROVE  GInv'
<1>1. /\ UNCHANGED <<vaultVars, history>>
      /\ \/ UNCHANGED <<todo, out>>
         \/ todo' = [todo EXCEPT ![r] = {}] /\ out' = [out EXCEPT ![r] = {}] /\ Goto(r, "rejected")
  BY DEF Recording, AppendWrite, AppendSync, AppendFails, Return
<1>2. LP!IInv' /\ UNCHANGED <<crashes, tailTorn>> /\ acked \subseteq acked'
  BY RecordingEffect
<1>3. PICK label \in {"sync", "forward", "rejected"} :
        /\ Goto(r, label)
        /\ label = "sync" => /\ pc[r] = "append" /\ inflight = L!NoRecord
                             /\ inflight' # L!NoRecord /\ inflight'.entry = Entry(r)
        /\ label = "forward" => pc[r] = "sync" /\ acked' = acked \cup {inflight}
        /\ label = "rejected" => pc[r] \in {"append", "sync"} /\ inflight' = L!NoRecord
        /\ pc[r] = "append" => inflight = L!NoRecord
  BY RecordingEffect
<1>4. /\ pc' \in [Requests -> Labels] /\ pc'[r] = label
      /\ \A q \in Requests : q # r => pc'[q] = pc[q]
  BY <1>3, Goes DEF GInv, Labels, Ended
<1>5. VP!VInv'
  BY <1>1, <1>2, VaultStep DEF GInv, VP!vars, vaultVars
<1>6. HandlersOK'
  BY <1>1, <1>3, <1>4 DEF GInv, HandlersOK, vaultVars, Active, Labels, Ended
<1>7. OwnsInflight'
  <2>1. /\ \A q \in Requests : q # r => Entry(q)' = Entry(q)
        /\ label # "rejected" => Entry(r)' = Entry(r)
    BY <1>1, <1>3, <1>4 DEF Entry, GInv, HandlersOK, Goto
  <2>2. ASSUME NEW q \in Requests, q # r, pc[q] = "sync"
        PROVE  FALSE
    <3>1. inflight # L!NoRecord /\ inflight.entry = Entry(q)
      BY <2>2 DEF GInv, OwnsInflight
    <3>2. pc[r] = "sync" => inflight.entry = Entry(r)
      BY DEF GInv, OwnsInflight
    <3>3. Entry(q).path = <<q>> /\ Entry(r).path = <<r>>
      BY DEF Entry
    <3> QED
      BY <1>3, <2>2, <3>1, <3>2, <3>3
  <2> QED
    BY <1>3, <1>4, <2>1, <2>2 DEF OwnsInflight
<1>8. Recorded'
  <2>1. \A e : HasRecord(e) => HasRecord(e)'
    BY <1>2 DEF HasRecord
  <2>2. /\ \A q \in Requests : q # r => Entry(q)' = Entry(q)
        /\ label # "rejected" => Entry(r)' = Entry(r)
    BY <1>1, <1>3, <1>4 DEF Entry, GInv, HandlersOK, Goto
  <2>3. label = "forward" => HasRecord(Entry(r))'
    BY <1>3, <2>2 DEF GInv, OwnsInflight, HasRecord
  <2> QED
    BY <1>1, <1>3, <1>4, <2>1, <2>2, <2>3 DEF GInv, Recorded, history
<1>9. tailTorn' = FALSE
  BY <1>2 DEF GInv
<1>10. TokensKnown' /\ SavedBehindFlush' /\ EscapedIsSaved'
  BY <1>1, <1>3, <1>4 DEF HandlersOK, GInv, TokensKnown, SavedBehindFlush, EscapedIsSaved, Saved, vaultVars,
                          history, Active, Labels, Ended
<1>11. StreamKnown'
  <2>1. \A s \in streamed : s[1] \in Requests /\ s[1] # r
    BY <1>3 DEF GInv, StreamKnown
  <2> QED
    BY <1>1, <1>4, <2>1 DEF GInv, StreamKnown, Saved, vaultVars, history
<1> QED
  BY <1>2, <1>5, <1>6, <1>7, <1>8, <1>9, <1>10, <1>11 DEF GInv

\* The process starts: no handler is at work yet.
LEMMA StartGInv ==
    ASSUME GInv, Start
    PROVE  GInv'
<1>1. LP!Open /\ VP!Open /\ UNCHANGED <<pc, todo, out, forwarded, escaped, streamed>>
  BY SameLog, SameVault DEF Start, handlers, history
<1>2. LP!IInv' /\ VP!VInv'
  BY <1>1, LogStep, VaultStep DEF GInv, LP!Next, LP!Working, VP!Next
<1>3. \A r \in Requests : pc[r] \in Labels /\ pc[r] \notin Active
  BY <1>1 DEF GInv, HandlersOK, VP!Open
<1>4. UNCHANGED <<disk, vaultFaults, acked, inflight, tailTorn>>
  BY <1>1 DEF VP!Open, LP!Open
<1>5. HandlersOK' /\ OwnsInflight' /\ Recorded' /\ tailTorn' = FALSE
  <2>1. HandlersOK'
    BY <1>1, <1>3 DEF GInv, HandlersOK
  <2>2. OwnsInflight' /\ Recorded'
    BY <1>1, <1>4 DEF GInv, OwnsInflight, Recorded, HasRecord, Entry
  <2>3. tailTorn' = FALSE
    BY <1>4 DEF GInv
  <2> QED
    BY <2>1, <2>2, <2>3
<1>6. TokensKnown' /\ SavedBehindFlush'
  BY <1>1, <1>3 DEF TokensKnown, SavedBehindFlush, Active, Labels, Ended
<1>7. EscapedIsSaved' /\ StreamKnown'
  BY <1>1, <1>3, <1>4 DEF GInv, EscapedIsSaved, StreamKnown, Saved
<1> QED
  BY <1>2, <1>5, <1>6, <1>7 DEF GInv

\* The process stops, and every handler at work with it.
LEMMA StopGInv ==
    ASSUME GInv, Stop
    PROVE  GInv'
<1>1. /\ LP!Crash /\ VP!Crash /\ UNCHANGED <<forwarded, escaped, streamed>>
      /\ todo' = [r \in Requests |-> {}] /\ out' = [r \in Requests |-> {}]
  BY SameLog, SameVault DEF Stop, history
<1>2. LP!IInv' /\ VP!VInv'
  BY <1>1, LogStep, VaultStep DEF GInv, LP!Next, VP!Next
<1>3. /\ pc' \in [Requests -> Labels]
      /\ \A r \in Requests : /\ pc'[r] \in Ended \cup {"idle"}
                             /\ pc'[r] = "idle" <=> pc[r] = "idle"
                             /\ pc'[r] \in {pc[r], "lost"}
  BY DEF Stop, GInv, HandlersOK, Labels, Ended
<1>4. UNCHANGED <<disk, vaultFaults, acked, tailTorn>>
  BY <1>1 DEF VP!Crash, LP!Crash
<1>5. HandlersOK' /\ OwnsInflight' /\ Recorded' /\ tailTorn' = FALSE
  <2>1. HandlersOK'
    BY <1>1, <1>3 DEF HandlersOK, Active
  <2>2. OwnsInflight' /\ Recorded'
    BY <1>1, <1>3, <1>4 DEF GInv, OwnsInflight, Recorded, HasRecord, Ended
  <2>3. tailTorn' = FALSE
    BY <1>4 DEF GInv
  <2> QED
    BY <2>1, <2>2, <2>3
<1>6. TokensKnown' /\ SavedBehindFlush'
  BY <1>1, <1>3 DEF TokensKnown, SavedBehindFlush, Active, Ended
<1>7. EscapedIsSaved'
  BY <1>1, <1>4 DEF GInv, EscapedIsSaved, Saved
<1>8. StreamKnown'
  BY <1>1, <1>3, <1>4 DEF GInv, StreamKnown, Saved, Active, Ended
<1> QED
  BY <1>2, <1>5, <1>6, <1>7, <1>8 DEF GInv

\* A step that changes nothing keeps the invariant.
LEMMA StutterGInv ==
    ASSUME GInv, UNCHANGED vars
    PROVE  GInv'
<1>1. LP!IInv' /\ VP!VInv'
  BY ComponentsIdle DEF GInv, vars
<1>2. UNCHANGED <<logVars, vaultVars, handlers, history>>
  BY DEF vars
<1>3. HandlersOK' /\ OwnsInflight' /\ Recorded' /\ tailTorn' = FALSE
  BY <1>2 DEF GInv, HandlersOK, OwnsInflight, Recorded, HasRecord, Entry,
              logVars, vaultVars, handlers, history
<1>4. TokensKnown' /\ SavedBehindFlush' /\ EscapedIsSaved' /\ StreamKnown'
  BY <1>2 DEF GInv, TokensKnown, SavedBehindFlush, EscapedIsSaved, StreamKnown, Saved,
              vaultVars, handlers, history
<1> QED
  BY <1>1, <1>3, <1>4 DEF GInv

\* The gateway before its first start.
LEMMA InitGInv ==
    ASSUME Init
    PROVE  GInv
<1>1. LP!IInv /\ VP!VInv
  BY ComponentAssumptions, SameLog, SameVault, LP!InitIInv, VP!InitVInv DEF Init
<1>2. \A r \in Requests : pc[r] = "idle"
  BY DEF Init
<1>3. HandlersOK
  BY <1>2 DEF Init, HandlersOK, Active, Labels, Ended
<1>4. OwnsInflight /\ Recorded /\ TokensKnown /\ SavedBehindFlush
  BY <1>2 DEF Init, OwnsInflight, Recorded, TokensKnown, SavedBehindFlush, Active, Labels, Ended
<1>5. EscapedIsSaved /\ StreamKnown
  BY DEF Init, EscapedIsSaved, StreamKnown
<1>6. tailTorn = FALSE
  BY DEF Init, L!Init
<1> QED
  BY <1>1, <1>3, <1>4, <1>5, <1>6 DEF GInv

\* Every step of the gateway keeps the invariant.
LEMMA NextGInv ==
    ASSUME GInv, [Next]_vars
    PROVE  GInv'
<1>1. CASE Start
  BY <1>1, StartGInv
<1>2. CASE Stop
  BY <1>2, StopGInv
<1>3. ASSUME NEW r \in Requests, Handle(r)
      PROVE  GInv'
  <2>1. \/ GoesOn(r) \/ Saving(r) \/ Recording(r) \/ Forward(r) \/ ForwardFails(r) \/ Reply(r)
        \/ \E v \in Values : ReplacesIn(r, v)
    BY <1>3 DEF Handle, Redacting, GoesOn, ReplacesIn
  <2> QED
    BY <2>1, GoesOnGInv, SavingGInv, RecordingGInv, LeavesGInv, ReplacesGInv
<1>4. ASSUME NEW r \in Requests, Environment(r)
      PROVE  GInv'
  <2>1. CASE \E body \in SUBSET Values, isJSON \in BOOLEAN : Receive(r, body, isJSON)
    BY <2>1, ReceiveGInv
  <2>2. CASE \E values \in SUBSET Values, isJSON \in BOOLEAN : BodyArrives(r, values, isJSON)
    BY <2>2, ArrivesGInv
  <2>3. CASE \E v \in Values : StreamArrives(r, v)
    <3>1. PICK values \in SUBSET Values : TRUE
      OBVIOUS
    <3> QED
      BY <2>3, <3>1, ArrivesGInv
  <2>4. CASE GoesOn(r)
    BY <2>4, GoesOnGInv
  <2> QED
    BY <1>4, <2>1, <2>2, <2>3, <2>4 DEF Environment, GoesOn
<1>5. CASE UNCHANGED vars
  BY <1>5, StutterGInv
<1> QED
  BY <1>1, <1>2, <1>3, <1>4, <1>5 DEF Next

-----------------------------------------------------------------------------
(* What the gateway guarantees *)

\* The invariant holds in every reachable state, for every set of requests and
\* values and every number of faults and crashes.
THEOREM GatewayInvariance == Spec => []GInv
<1>1. Init => GInv
  BY InitGInv
<1>2. GInv /\ [Next]_vars => GInv'
  BY NextGInv
<1> QED
  BY <1>1, <1>2, PTL DEF Spec

\* Type correctness, of the log and the vault inside the gateway too.
THEOREM GatewayTypeCorrect == Spec => []TypeOK
<1>1. GInv => TypeOK
  <2> SUFFICES ASSUME GInv PROVE TypeOK
    OBVIOUS
  <2>1. L!TypeOK
    BY DEF GInv, LP!IInv, LP!TypeOK, LP!WellFormed, LP!IsRecord, LP!Corrupt, LP!NoRecord,
           LP!NewRecord, LP!chainHash, LP!Joined, LP!NL, L!TypeOK, L!WellFormed, L!IsRecord, L!Corrupt, L!NoRecord,
           L!NewRecord, L!chainHash, L!Joined, L!NL
  <2>2. V!TypeOK
    BY DEF GInv, VP!VInv, VP!TypeOK, VP!IsMap, VP!Tokens, V!TypeOK, V!IsMap, V!Tokens
  <2> QED
    BY <2>1, <2>2 DEF GInv, HandlersOK, TypeOK
<1> QED
  BY <1>1, GatewayInvariance, PTL

\* Fail closed: what was sent to the provider has a record whose Append returned,
\* on stable storage at its place unless the log's disk has failed.
THEOREM SentIsRecorded == Spec => []ForwardedIsRecorded
<1>1. GInv => ForwardedIsRecorded
  <2> SUFFICES ASSUME GInv, NEW e \in forwarded PROVE
                 \E rec \in acked : /\ rec.entry = e
                                    /\ logFaults = 0 => rec.seq <= synced /\ file[rec.seq] = rec
    BY DEF ForwardedIsRecorded
  <2>1. PICK rec \in acked : rec.entry = e
    BY DEF GInv, Recorded, HasRecord
  <2>2. logFaults = 0 => \A j \in 1..synced : ~LP!Spoilt(j)
    BY DEF GInv, LP!IInv, LP!TypeOK, LP!Clean, LP!SomeSpoilt
  <2>3. logFaults = 0 => rec.seq <= synced /\ file[rec.seq] = rec
    BY <2>2 DEF GInv, LP!IInv, LP!TypeOK, LP!AckedInPlace
  <2> QED
    BY <2>1, <2>3
<1> QED
  BY <1>1, GatewayInvariance, PTL

\* Until a flush fails, every token that left in a body or a JSON answer can be
\* revealed from the vault file, whatever stops.
THEOREM SentIsSaved == Spec => []EscapedIsSaved
<1>1. GInv => EscapedIsSaved
  BY DEF GInv
<1> QED
  BY <1>1, GatewayInvariance, PTL

\* And every token of a stream, by the time its handler is done.
THEOREM StreamIsSavedAtItsEnd == Spec => []StreamSavedAtEnd
<1>1. GInv => StreamSavedAtEnd
  BY DEF GInv, StreamKnown, StreamSavedAtEnd
<1> QED
  BY <1>1, GatewayInvariance, PTL

\* Until a flush fails, what left in bodies, JSON answers and finished streams agrees on which
\* token stands for which value, over all concurrent requests, crashes and restarts.
THEOREM TokensStayAgreed == Spec => []TokensAgree
<1>1. GInv => TokensAgree
  <2> DEFINE finished == {<<s[2], s[3]>> : s \in {s \in streamed : pc[s[1]] = "done"}}
  <2> SUFFICES ASSUME GInv, vaultFaults = 0, NEW p \in escaped \cup finished,
                      NEW q \in escaped \cup finished
               PROVE  p[1] = q[1] <=> p[2] = q[2]
    BY DEF TokensAgree
  <2>1. Saved(p) /\ Saved(q)
    BY DEF GInv, EscapedIsSaved, StreamKnown
  <2>2. \A t, u \in DOMAIN disk.map : t[1] = u[1] /\ disk.map[t] = disk.map[u] => t = u
    BY DEF GInv, VP!VInv, VP!DiskSound, VP!OneToken
  <2>3. \A t \in DOMAIN disk.map : t[1] = Kind
    BY DEF GInv, VP!VInv, VP!TypeOK, VP!IsMap, VP!Tokens
  <2> QED
    BY <2>1, <2>2, <2>3 DEF Saved
<1> QED
  BY <1>1, GatewayInvariance, PTL

\* Whatever failed, a log that verifies has a line for every body that was sent.
THEOREM VerifiedLogIsWhole == Spec => []VerifiedLogAccountsForAll
<1>1. GInv => VerifiedLogAccountsForAll
  <2> SUFFICES ASSUME GInv, LP!VerifyOK(file), NEW e \in forwarded
               PROVE  \E i \in 1..Len(file) : file[i].entry = e
    BY SameVerifier DEF VerifiedLogAccountsForAll
  <2>1. PICK rec \in acked : rec.entry = e
    BY DEF GInv, Recorded, HasRecord
  <2>2. LP!AckedOrBroken /\ synced \in 0..Len(file) /\ Len(file) \in Nat
    BY DEF GInv, LP!IInv, LP!TypeOK
  <2>3. rec.seq \in 1..synced /\ file[rec.seq] = rec
    BY <2>2 DEF LP!AckedOrBroken, LP!VerifyOK, LP!ChainOK
  <2> QED
    BY <2>1, <2>2, <2>3
<1> QED
  BY <1>1, GatewayInvariance, PTL

-----------------------------------------------------------------------------
(* The gateway uses its log and its vault as they are specified *)

\* What the handlers do to the log, the log's process does.
LEMMA StepOfLog ==
    ASSUME GInv, [Next]_vars
    PROVE  [LP!Next]_LP!vars
<1>1. CASE Start \/ Stop
  BY <1>1, SameLog DEF Start, Stop, LP!Next, LP!Working
<1>2. ASSUME NEW r \in Requests, Recording(r)
      PROVE  LP!Next
  <2>1. Entry(r) \in EntriesOf(Requests)
    BY DEF GInv, HandlersOK, Entry, EntriesOf
  <2> QED
    BY <1>2, <2>1, SameLog
       DEF Recording, AppendWrite, AppendSync, AppendFails, LP!Next, LP!Working
<1>3. ASSUME NEW r \in Requests, Saving(r)
      PROVE  UNCHANGED LP!vars
  <2>1. PICK here, inside, next : FlushVault(r, here, inside, next)
    BY <1>3 DEF Saving, FlushRequest, FlushAnswer, FlushStream
  <2>2. UNCHANGED logVars
    BY <2>1 DEF FlushVault
  <2>3. UNCHANGED crashes
    BY <2>1, FlushEffect DEF GInv
  <2> QED
    BY <2>2, <2>3 DEF LP!vars, logVars
<1>4. ASSUME NEW r \in Requests, NEW v \in Values, ReplacesIn(r, v)
      PROVE  UNCHANGED LP!vars
  <2>1. Replace(r, v) /\ UNCHANGED logVars
    BY <1>4 DEF ReplacesIn, RedactValue, RedactAnswer, ReplaceHeld, StreamValue
  <2>2. UNCHANGED crashes
    BY <2>1, ReplaceEffect DEF GInv
  <2> QED
    BY <2>1, <2>2 DEF LP!vars, logVars
<1>5. ASSUME NEW r \in Requests,
             GoesOn(r) \/ Forward(r) \/ ForwardFails(r) \/ Reply(r) \/ Environment(r)
      PROVE  UNCHANGED LP!vars
  BY <1>5 DEF GoesOn, RedactDone, RedactAnswerDone, StreamEnds, StreamStops, UpstreamFails, Forward,
              ForwardFails, Reply, Environment, Receive, UpstreamAnswers, BodyArrives, StreamArrives,
              LP!vars, logVars
<1>6. CASE UNCHANGED vars
  BY <1>6 DEF vars, logVars, LP!vars
<1> QED
  BY <1>1, <1>2, <1>3, <1>4, <1>5, <1>6
     DEF Next, Handle, Redacting, GoesOn, ReplacesIn

\* And so with the vault.
LEMMA StepOfVault ==
    ASSUME GInv, [Next]_vars
    PROVE  [VP!Next]_VP!vars
<1>1. CASE Start \/ Stop
  BY <1>1, SameVault DEF Start, Stop, VP!Next
<1>2. ASSUME NEW r \in Requests, Recording(r)
      PROVE  UNCHANGED VP!vars
  <2>1. UNCHANGED vaultVars
    BY <1>2 DEF Recording, AppendWrite, AppendSync, AppendFails
  <2>2. UNCHANGED crashes
    BY <1>2, RecordingEffect
  <2> QED
    BY <2>1, <2>2 DEF VP!vars, vaultVars
<1>3. ASSUME NEW r \in Requests, Saving(r)
      PROVE  [VP!Next]_VP!vars
  <2>1. PICK here, inside, next : FlushVault(r, here, inside, next)
    BY <1>3 DEF Saving, FlushRequest, FlushAnswer, FlushStream
  <2>2. \/ UNCHANGED <<vaultVars, crashes>>
        \/ VP!FlushWrite \/ VP!FlushWriteFails \/ VP!FlushRename \/ VP!FlushRenameFails
    BY <2>1, SameVault DEF FlushVault
  <2> QED
    BY <2>2 DEF VP!Next, VP!vars, vaultVars
<1>4. ASSUME NEW r \in Requests, NEW v \in Values, ReplacesIn(r, v)
      PROVE  VP!Next
  <2>1. VP!Assign(Kind, v)
    BY <1>4, SameVault DEF ReplacesIn, RedactValue, RedactAnswer, ReplaceHeld, StreamValue, Replace
  <2> QED
    BY <2>1 DEF VP!Next
<1>5. ASSUME NEW r \in Requests,
             GoesOn(r) \/ Forward(r) \/ ForwardFails(r) \/ Reply(r) \/ Environment(r)
      PROVE  UNCHANGED VP!vars
  BY <1>5 DEF GoesOn, RedactDone, RedactAnswerDone, StreamEnds, StreamStops, UpstreamFails, Forward,
              ForwardFails, Reply, Environment, Receive, UpstreamAnswers, BodyArrives, StreamArrives,
              VP!vars, vaultVars
<1>6. CASE UNCHANGED vars
  BY <1>6 DEF vars, vaultVars, VP!vars
<1> QED
  BY <1>1, <1>2, <1>3, <1>4, <1>5, <1>6
     DEF Next, Handle, Redacting, GoesOn, ReplacesIn

\* However the handlers interleave, what they do to the log and to the vault is a
\* behaviour of AuditLog and a behaviour of Vault: what is proved of the one
\* process that has the log, or the vault, open holds under concurrent requests.
THEOREM ComponentsUsedAsSpecified == Spec => LP!Spec /\ VP!Spec
<1>1. Init => LP!Init /\ VP!Init
  BY SameLog, SameVault DEF Init
<1>2. GInv /\ [Next]_vars => [LP!Next]_LP!vars /\ [VP!Next]_VP!vars
  BY StepOfLog, StepOfVault
<1> QED
  BY <1>1, <1>2, GatewayInvariance, PTL DEF Spec, LP!Spec, VP!Spec

\* So the gateway's log is the append-only ledger its callers count on, and its vault
\* never changes a token of its file.
THEOREM GatewayKeepsLedgerAndVault == Spec => LP!ImplementsLedger /\ VP!PersistedForever
BY ComponentsUsedAsSpecified, ComponentAssumptions, LP!LogImplementsLedger, VP!PersistedStays, PTL

=============================================================================
