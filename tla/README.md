# A formal model of sphragis

Sphragis is a gateway between an application and a language-model provider. It
replaces sensitive values in requests and answers by tokens (`[EMAIL_1]`),
keeps the values in a sealed *vault* so that they can be restored, and records
every call in a hash-chained *audit log* before it is forwarded. This directory
holds TLA+ models of that machinery, the TLC runs that check them on small
instances, and TLAPS proofs that hold for every instance.

Paths below are relative to the repository.

## 1. The system

| Component | State | Operations | What makes it correct |
|---|---|---|---|
| Audit log, `internal/audit/log.go` | the file; in memory the next number and the last hash, under `Log.mu` | `Open` (reads the file, recovers `seq` and `lastHash`), `Append` (one write, one fsync), `Close` | the file is one hash chain; what was acknowledged is on disk; after a restart the chain goes on |
| Verifier, `audit/verify.go` | none | `Verify`, `Recent` | an edit of what is hashed, a moved or a dropped record is noticed; acknowledged records are all there |
| Merkle root and anchoring, `audit/merkle.go`, `internal/anchor`, `cmd/sphragis/anchor.go`, `serve.go:130` | the `.ots` file; `state.json`, the switch and the interval of automatic anchoring | `RootDigest`, `Anchor`, `anchor on`, `anchor off`, the loop of `serve` | a root stands for one log, but for what the tree cannot tell apart; the loop goes by the switch and ends with the gateway |
| Vault, `internal/vault/vault.go` | `fwd`, `rev`, `counter`, `dirty` under `Vault.mu`; the vault file and its temporary file | `Open`, `Assign`, `Flush`, `Reveal` | tokens and values correspond one to one, for ever, over crashes |
| Gateway handler, `internal/proxy/proxy.go` | one goroutine per request; shares one log and one vault | `ServeHTTP`, `writeResponse` | nothing is forwarded unrecorded; what leaves can be revealed, and its tokens mean one thing |
| Stream redactor, `redact/stream.go` | `carry`, `flushTmpl`, `pendingEvent` | `Process`, `handleLine`, `feedText`, `flushCarry` | a value split over deltas is still tokenized; text is neither lost, nor moved, nor late; events stay whole |
| Detectors, `redact/redact.go`, `detectors.go`, `eu.go` | none (a `seen` map per text without a vault) | `Redact` | no pass undoes or hides what another did |
| Walkers, `redact/request.go`, `response.go`, `gemini.go`, `reveal.go` | none | `RedactRequest`, `RedactResponse`, `RevealResponse` | every text of every shape is visited, nothing else is, and history that comes back is what the provider saw |
| NER client, `redact/ner.go`, `ner/pii-tracer` | none | `redact` | fails open within 5 s |
| Usage scanner, `proxy/usage.go` | a partial line | `Write` | passes the stream on unchanged |
| Life cycle, `cmd/sphragis/serve.go`, `daemon.go`, `internal/control` | pid file, port, signals | `start`, `stop`, `restart`, `serve` | at most one process on a log and a vault; the running one is the recorded one; whoever is told to end ends |
| Configuration, metrics, web page, other commands | none that the gateway decides by | | |

How they interact. `serve` opens the vault, then the log, then listens. A
request goroutine reads the body; redacts it, calling `Vault.Assign` once per
value; calls `Vault.Flush` and *drops its error*; appends to the log and answers
500 when that fails; forwards; then redacts the answer, a JSON body as a whole
(flush, then write) or a stream line by line (write at once, one flush at the
end). The goroutines meet in `Vault.mu` and `Log.mu` only. The maps and the
counters die with the process, so each new one rebuilds them from the files.

What is hard here: two system calls in each critical section (write and fsync,
write and rename), each of which may fail or be the last thing the process does;
one `dirty` flag for all requests; numbering recovered from files; an event
stream that may be cut anywhere, in its text and in its lines, with text held
back across events. `PROJECT.json` lists each such hazard at its line with the
properties that cover it, or the reason none does yet.

## 2. The modules

| Module | Models | Uses |
|---|---|---|
| `Ledger` | what the log promises: an append-only ledger that confirms only what it holds | |
| `AuditLog` | `log.go`, and the checks of `verify.go` | `Ledger` (refinement) |
| `AuditLogProofs` | theorems about `AuditLog` | `AuditLog`, TLAPS |
| `Vault` | `vault.go` | |
| `VaultProofs` | theorems about `Vault` | `Vault`, TLAPS |
| `Gateway` | `ServeHTTP`, `writeResponse`, `FlushVault`, over one log and one vault | `INSTANCE AuditLog`, `INSTANCE Vault` |
| `GatewayProofs` | theorems about `Gateway` | `Gateway`, `INSTANCE AuditLogProofs`, `INSTANCE VaultProofs` |
| `Stream` | `stream.go` and a provider's event stream | |
| `StreamProofs` | theorems about `Stream` | `Stream`, TLAPS |
| `Anchoring` | `merkle.go`, `anchor.go`, and the loop and the command that call it, over one log | extends `AuditLog` |
| `AnchoringProofs` | theorems about `Anchoring` | `Anchoring`, `AuditLogProofs` |
| `AnchorSwitch` | `state.json` (`control.go`), `anchor on` and `anchor off`, and the loop of `serve` that goes by them | |
| `AnchorSwitchProofs` | theorems about `AnchorSwitch` | `AnchorSwitch`, TLAPS |
| `Walkers` | `request.go`, `response.go`, `gemini.go`, `reveal.go`, over the bodies of a conversation | |
| `RoundTrip` | the passes of `redact.go`, `detectors.go`, `eu.go`, `ner.go` over a text, and `Vault.Reveal` of the result, in a conversation | |
| `RoundTripProofs` | theorems about `RoundTrip` | `RoundTrip`, TLAPS |
| `Lifecycle` | `daemon.go`, `control.go`, and `serve` from start to end | |
| `LifecycleProofs` | theorems about `Lifecycle` | `Lifecycle`, TLAPS |
| `MCAnchoring`, `MCGateway`, `MCStream`, `MCRoundTrip`, `MCWalkers` | entries, symmetry sets and small texts for TLC | the module they are named after |

Definitions named `...Late`, `...Skipped`, `...Again` and so on, marked *Faulty*
in their comment, take no part in any specification. Each is a plausible bug in
one operation, and is put in the place of that operation to see that a property
notices it.

### AuditLog

| TLA+ | Code |
|---|---|
| `file`, `terminated` | the file as a sequence of lines; a line is a record or `Corrupt`; whether it ends in a newline |
| `synced` | the lines a completed `Sync` covers (operating system) |
| `log` | `Log.seq`, `Log.lastHash`, and whether a process has it open |
| `inflight` | the record between `Write` and `Sync` inside `Append`, that is, inside `Log.mu` |
| `acked` | history: the records `Append` returned |
| `Open` | `Open`: fails on a line that is not JSON, takes number and hash from the last line, replays nothing |
| `Write`, `WriteFails`; `Sync`, `SyncFails` | the two halves of `Append`; an error leaves `seq` and `lastHash` alone and whatever was written in the file |
| `Crash`, `PowerLoss`, `PowerLossTears` | the process stops; the machine stops, and loses lines after `synced`, the first of which may be cut |
| `LinkOK`, `VerifyOK` | the loop of `Verify` |

A failed write leaves nothing, a cut line, or all but the newline; the next
write then shares its line. So may a power loss (`PowerLossTears`): `tailTorn` is history
and says that one has left a part of a record at the end. `Open` accepts a last line that
only lacks its newline, and the next record, written behind it, is acknowledged and
unreadable. Of an entry the model keeps path and model name, which are texts of the
request, and the hash of the payload; method, time and counts would be further fields of
the kind. `chainHash` joins the fields with newlines between them (`Joined`), and neither
the path (a decoded `%0A`) nor the model name is escaped, so that two entries may be
joined to one text. Only the hash of that text is taken to be injective. `Long` says which
entries make a record longer than the 4 MiB that the scanners of `Open` and `Verify` take:
`Append` writes one like any other, and `Scans` fails ever after.

`Ledger` is the abstract view: `ledger` is what is on stable storage, `confirmed`
the numbers that `Append` returned, `intact` whether a fault has happened or a tail was torn yet. Up to
the first of them a confirmation names the last position (`Confirm`); afterwards
(`ConfirmUnsure`) the ledger still only grows and takes no confirmation back, but a
number may be given twice, so it names no position any more.

### Anchoring

| TLA+ | Code |
|---|---|
| `at`, `leaves` | per anchorer (the loop of `serve`, one `anchor now`): where it is, and the payload hashes its `Verify` has collected |
| `proof` | the root in the `.ots` file |
| `Begin`, `ReadLine`, `ReadTail`, `EndOfLog` | `RootDigest`: the scanner takes one line after the other, while `AuditLog`'s actions go on between them; the last line needs no newline |
| `GivesUp` | every error return: a line that does not verify or is seen half written, an empty log, silent calendars, the time limit |
| `WriteProof`, `WriteProofFails` | `os.WriteFile`, which truncates the old proof first |
| `Pair`, `Above`, `Levels`, `MerkleRoot` | one round of the loop of `MerkleRoot`, which stops at one node, every level it comes to, and the last one's node |
| `LeafHashes` | what may stand as a payload hash in a log that was made anew: those of bodies, and every node of this log's tree |
| `LogWorks`, `GatewayStops`, `MachineStops` | a step of `AuditLog`; the loop ends with the gateway, the command with the machine |

`lost` is history: an outage has changed lines of the log. An anchoring may read
a line that no fsync covers yet; when the machine then stops, the root in the
proof is one of a log that nobody has any more, so `ProofStaysProvable` excepts
that. When the loop begins is the subject of `AnchorSwitch`; here it may begin at any
time, which includes every time it does. `pairHash` puts nothing before what it hashes that
would tell a leaf from a node, and `Verify` compares no payload hash with a body; the model
takes SHA-256 of two nodes to be the pair of them, and of nothing else that is a leaf or
not. A payload hash that is not 64 lower-case digits (`pairHash` makes one of several such
texts) is left out.

### AnchorSwitch

| TLA+ | Code |
|---|---|
| `file`, `Loaded` | `state.json`, and what `LoadState` makes of it: the defaults when it is absent or empty |
| `Load`, `Truncate`, `Write` | `anchor on` and `anchor off`: read the state, change it, and `SaveState`, whose `os.WriteFile` empties the file before it writes it |
| `Fails` | the command fails or is killed before one of its steps |
| `loop`, `seen` | the goroutine at `serve.go:130`, and the state whose interval it is waiting for |
| `ReadInterval`, `TimeIsUp`, `Leave`, `Check`, `Anchored` | one round: the interval is read, `select` waits for it or for the stop, then the switch is read, then an anchoring is made |
| `Stop` | the context of `serve` is cancelled |

`wish` is history: what the commands so far come to when each takes effect at
its end. `overlap` is history too: there is no lock, and two commands at once may
lose one of the settings, which is why every safety property here is about
commands that come one at a time. An interval that does not parse waits a day; one
that parses to no time at all (`Zero`) is over whenever the loop looks.

### Vault

| TLA+ | Code |
|---|---|
| `fwd`, `rev`, `counter`, `dirty` | the fields of `Vault` |
| `flushing` | inside `flush`, after `WriteFile` and before `Rename`: the lock is held |
| `disk`, `tmp` | the vault file and `path + ".tmp"`: a whole map, or `Torn` |
| `Open` | `Open` and `load`; `ReverseOf` and `CountersOf` are what the loop of `load` may leave, in any map order |
| `AssignKnown`, `AssignNew` | `Assign` |
| `FlushWrite`, `FlushWriteFails`, `FlushRename`, `FlushRenameFails` | `Flush` and `flush` |
| `Crash` | the process stops, perhaps inside `WriteFile` |
| `Reveal`, `Lettered` | `Reveal` on one token; the kinds its pattern `[A-Z]+` matches |

Sealing with the right key is lossless. A crash is the end of the process: the
code does not fsync the vault file, and what a power loss makes of a rename
without one depends on the file system; the model does not include it.

### Gateway

A body is the set of sensitive values in it, replaced by their tokens one by one;
a handler's place in the code is `pc[r]`. Each step of the log and of the vault
is a step of those modules taken through `INSTANCE`, so that their locks, faults
and crashes are the ones already described. A request is JSON, or opaque and
forwarded as it is (`proxy.go:134`). What waits for others is the environment's:
`UpstreamAnswers`, `BodyArrives`, `StreamArrives`, `StreamStops`, `UpstreamFails`; a
provider may send no head, no body, or half of one, and then nothing more. `Stop` ends all handlers at any step, `Start`
opens both files again. `forwarded`, `escaped` and `streamed` are history.
Values are of one detector kind, so that numbering matters most. Auto-reveal
(`proxy.go:236`) is in `RoundTrip`, `Walkers` and `Stream`; routing, headers and metrics are left out:
they touch neither file.

### Stream

The provider's side sends events block by block and may break off anywhere; the
gateway's side has one action per branch of `handleLine`, and one for the end of
the body. A text is a sequence of characters that know which value they belong
to, so that "the detectors find every value that stands whole in the text they
are given" is a definition (`Redact`), and cutting a value has the effect it has
in the program. `Release` is `feedText`'s rule, `Flushed` is `flushCarry`. The
format of the answer is chosen at the start and kept (`format`); "other" stands
for the three that redact each event by itself. One chunk carries one choice. A
text's width is small and so is `MinTail` = 2, which stands for
`streamMinTail` = 64: what counts is that a value may be shorter or longer than
the tail, and both occur. `Armored` values are PEM keys: while one is open, nothing is
released. A connection may break between two lines or inside one (`EndInsideLine`). What is
there of a cut data line is not JSON and goes out as it is (`CutLine`, `stream.go:133`), with
the values in it; then what was held follows.

With `reveal` the configuration asks for originals: `redactStateful` reveals what
it has redacted, so a value, and a token of the request that the model echoes
(`Echoes`), both end as the original (`Becomes`). A token whose ends are in two
deltas is a text to be kept whole like any other.

An OpenAI chunk may end its choice and carry text at once. OpenAI itself sends no
such chunk, other servers of its protocol do. `isFlushTrigger` then flushes the
carry before the text of that chunk is added to it, so a value that reaches into
the chunk is cut, and the text follows the event that ended its choice. The
properties name this case (`EndsWithText`, `Redactions`) and hold in all others.

### RoundTrip

| TLA+ | Code |
|---|---|
| a text | a sequence of words: plain ones, the words of values, the labels `Key` (`password=`, `token:`) and `Bearer`, and tokens |
| `Shape` | what the detectors make of each value: its words, the kinds whose patterns match it, those whose validators accept it (`luhnValid`, `amkaValid`, `afmValid`), and the kind the NER service gives it |
| `Passes` | the EU pack when configured, `builtins`, the custom terms, then the NER service |
| `Matches`, `AfterLabel` | what one detector matches at a place, and whether it is accepted; `Keyed` takes any word behind its label, also a token, `AfterBearer` only letters and digits |
| `Apply`, `Step`, `Replaced`, `Longest` | `detector.apply`: left to right, position by position; the longest match is taken, and replaced but for its label, or left as it is when its validator rejects it (`redact.go:170`) |
| `Assign`, `Place`, `vault` | `Vault.Assign`; the vault is the sequence of its assignments, one numbering for all kinds |
| `Redact` | `Redactor.Redact` |
| `Reveal`, `Lettered` | `Vault.Reveal`; the kinds that its pattern `[A-Z]+` matches |
| `Ask` | a request: what the client was last shown, then a prompt |
| `Answer` | the model sends words of the request back, in order, perhaps behind a label; `writeResponse` redacts the body and reveals it when `autoReveal` is configured |

Words of one value may be words of another: a card with digits beside it is a value of its
own, which the pattern of cards matches and the Luhn test rejects, so that the card in
it stays (`SwallowedAt`). Each redaction takes the NER findings `vs` as an input: any subset of the values
in the text, so that a service that fails, is late, or stops between two segments
is included. A text is one string of a body. Spaces, quotes and case are below the
words, as are the patterns' own details: what matters here is which pass sees what
another left. The capital letters of a token are no match for any pattern, since
`_` is a word character and every one of them ends at a word boundary. What a client
types has no token in it (`PromptsAssumption`); tokens come in with the history. One typed by
hand that the vault has assigned would be like one from the history; one that it assigns
later would come to stand for something, which the model does not show.

### Walkers

| TLA+ | Code |
|---|---|
| `Format` | the `switch` of `RedactRequest` and `RedactResponse`: the first mark found in the path |
| `RedactMessages`, `RedactResponses`, `RedactAnthropic`, `RedactAnthropicBatch`, `RedactComplete`, `RedactGemini` | the functions of these names in `request.go` and `gemini.go` |
| `RedactContent`, `RedactBlock`, `RedactField`, `RedactSource`, `RedactAny` | what they share: the content of a message, its blocks, the fields of a block |
| `RedactResponse`, `RedactChoice`, `RedactCandidate`, `RedactItem` | `response.go`, and the answer of Gemini |
| `RevealAny` | `RevealResponse`: every string of the body |
| `Leaves`, `Roots`, `InContent`, `IsText` | the reference: each text of a body with the way to it, and which ways the documentation says are redacted |
| `Ask`, `Answer` | a round of a conversation in one format: history and prompt are redacted, the answer is redacted and perhaps revealed, and becomes history |

A JSON value is a tagged tree; numbers and booleans are left out, since no walk
looks at one. A text is one personal value, its token, or a word of the format:
what happens inside a text is in `RoundTrip`. `Body`, `Messages`, `Kept`, `Prompts`
and `Answers` are what a client and a provider of a format do, and `MCWalkers`
gives them for all seven, with a value at every place the walks go and at places
they do not.

The reference is written another way than the walks: the walks recur over the body
and change it, `IsText` looks at a path from its root. `WalksExactly` compares the two
for every body that occurs, in both directions: nothing documented is missed, and
no other text, type or name is touched. The other three properties are about
conversations, where the texts that no walk visits matter: what a chat answer puts
in `tool_calls`, a Responses answer in `function_call` arguments, Gemini in
`executableCode`, and the names of fields. `LeavesOnlyOutside` says that a value
comes to the provider through such a place or not at all.

### Lifecycle

| TLA+ | Code |
|---|---|
| `op`, `at`, `aim` | per invocation: the command, its place in `start` or `stop`, the process it deals with |
| `phase` | per gateway: its place in `serve`, from `spawned` over `vault open`, `open`, `listening`, `ending`, `unrecording`, `leaving` to `exited` |
| `pidfile`, `port`, `signalled` | the pid file, who listens, who was sent SIGTERM |
| `vaultSeen`, `logSeen`, `vault`, `log` | what a gateway has read of the two files and counts on from; the tokens in the one, the record numbers in the other |
| `StartChecks`, `Spawn`, `SpawnFails`, `WritePID`, `WritePIDFails` | `start` and its error returns |
| `StopChecks`, `Signal`, `StopSees`, `StopGivesUp`, `RemovePID` | `stop`; `restart` drops its result and goes on with `start` |
| `OpenVault`, `OpenLog`, `Listen`, `Shutdown`, `Terminated`, `ReadPID`, `Unrecord`, `Exit` | `serve`; `Terminated` is SIGTERM before the server listens |
| `HandleRequest` | one request, whole: one token, one record; also while the gateway ends, since nobody waits for `Shutdown` |
| `Die` | an error at startup, a crash, a kill |

The history variable `trouble` names the four things that may happen and break
the files: commands that run at once ("overlap"), a `stop` that gave up waiting
("gave up"), a pid file that could not be written ("no pid"), and a request that
ends after its gateway has removed its pid file ("late"). Each is real; the
properties say that nothing else is needed to be safe. Left out: process ids
that the system reuses, a pid file read while it is written (a reader then acts
as if there were none), `serve` in the foreground. The switch in `state.json`, which
no step here reads, is in `AnchorSwitch`.

## 3. The runs

| Run | Bounds | Shows |
|---|---|---|
| `AnchoredLog` | 4 entries, of which two are joined to one text and one is too long to be read again; 3 lines, 1 fault, 1 crash or power loss, 2 anchorings | of the log: `ChainIntact`, `AckedDurable`, `EditDetected`, `VerifiedHoldsAcked`, `ImplementsLedger`; of anchoring: `ProofStaysProvable`, `ProofTellsLogsApart` |
| `AuditLogTornWrite` | the same entries and lines, 1 fault, no crash, no anchoring | *violated*: `AckedRecorded` |
| `VaultCrash` | 2 kinds, 2 values, 1 fault, 2 crashes | `MapsInverse`, `RevealsPersisted`, `PersistedForever` |
| `GatewayFaults` | 2 requests (of records that can be read), 2 values, 1 log fault, 1 vault fault, 1 crash | `ForwardedIsRecorded`, `EscapedIsSaved`, `StreamSavedAtEnd`, `TokensAgree`, `VerifiedLogAccountsForAll` |
| `GatewayLive` | 2 requests, the record of one too long to be read, 1 value, same faults | `RequestProceeds`, `AnswerRelayed` |
| `GatewayFlushFails` | 2 requests, 2 values, 1 vault fault, 1 crash | *violated*: `TokenMeansOne` |
| `StreamFormats` | three formats, with and without reveal; 3 blocks (text, tool, text) or 1 longer one, with an open PEM block in one of the texts | `SeenIsRedacted`, `NothingHeldBack`, `EventsPaired`, `NoTextAfterEnd` |
| `StreamCutsCard` | 1 block, a card with a space or a whole PEM key | *violated*: `SplitValuesTokenized` |
| `RoundTrip` | 5 values of 1 to 3 words, of which one is rejected and has another in it, 6 prompts, 2 requests, with and without EU pack and auto-reveal | `MeaningKept`, `RevealExactOutsideSecrets`, `NothingWholeLeft`, `RedactedStays` |
| `Walkers` | 7 formats, 2 requests, 2 values of which the provider knows one, 3 to 8 prompts, every answer with the texts the provider can have | `WalksExactly`, `LeavesOnlyOutside`, `HistoryAsSeen`, `ThinkingIntactUnlessRevealed` |
| `AnchorSwitch` | 2 shells, any number of commands, 2 intervals of which one is no time | `SettingKept`, `OffStaysOff`, `AnchorsWhileOn`, `LoopEnds` |
| `Lifecycle` | 2 commands, both at once, 2 gateways, 3 requests, 2 failures | `ServerIsRecorded`, `OneServer`, `RestartsKeepFiles`, `SignalledEnds`, `CommandsReturn` |

Why these bounds reach the cases. *Log:* a crash needs
a line written and not synced, a second process and a third line behind it (3
lines, 1 crash); so does a torn tail that the next record is glued to. The logs that a
proof is to tell apart may have one line more (`MaxLines + 1`), which is what makes a tree
whose last node was duplicated equal to that of a longer log, and have the nodes of this
log's tree for payload hashes. Two entries differ only in where a newline stands between
path and model name. Longer sequences of faults are covered by the proofs, which have no
bounds. Two anchorings overlap and overwrite each other's proof. *Vault:* two values of
one kind compete for a number, two crashes let a recovered vault be recovered again. *Gateway:* a request that
relies on another's flush, or overtakes it between append and forward, takes
two; one fault of each kind already lets a failure meet a crash. *Stream:* text
held across a tool block takes three blocks; an early release that could cut a
value takes a text longer than value and tail together. *Round trip:* a token
inside a token takes a label in front of a value of an earlier pass; the second
request sends the first one's tokens, or what was revealed of them, once more,
a card of two words lets a keyed secret take half of it, and the same card with digits
beside it is matched as a whole and rejected. *Life cycle:* a
restart takes two commands and two gateways, a broken chain a request in each,
and two failures let both gateways, or a gateway and a write of its pid, fail.
*Walkers:* the second request sends what the first brought back, and that is the only
way history gets in; one value the provider did not know and one it did tell what it
has learned from what it had. *Switch:* the state is finite as it stands, so the
number of commands needs no bound; two shells overlap.

Deadlock is not checked where the system may stop for good: a log whose file no
longer opens or has reached `MaxLines`, all requests handled, a stream that is
over, a conversation at its last turn, no command left to call. `VaultCrash`
and `AnchorSwitch` check it.

Symmetry is used for the requests and values of the gateway, in its safety runs only.

*Fairness.* `GatewayLive` assumes weak fairness of `Handle(r)`, the steps a
handler takes by itself, for each request. The Go scheduler runs every runnable
goroutine, and `sync.Mutex` does not starve a waiter. Nothing is assumed of the
provider: the HTTP client has no timeout (`proxy.go:43`), so a request may wait for ever
for the answer, for the rest of its body or for the next part of a stream. Those waits
(`UpstreamAnswers`, `BodyArrives`, `StreamArrives`, `StreamStops`) are steps of the environment
and not of `Handle`, and `AnswerRelayed` is about an answer whose body has ended. Nor is
anything assumed of who restarts the process; a crash ends in `"lost"`. `Lifecycle` assumes weak
fairness of each running command, and of the opening and the ending of each
gateway: processes the operating system schedules, whose waits are all bounded
(`stop` polls fifty times, `serve` does not wait for `Shutdown`). Nobody has to
call a command, send a request, or die. `AnchorSwitch` assumes weak fairness of the
steps of the loop: time passes, and an anchoring has a limit of 60 s. Of `Leave` it
assumes strong fairness: where both the interval and the stop are ready, Go's `select`
picks at random, so the stop is not passed over for ever. Weak fairness would not do
for an interval of no time, where `Leave` is enabled again and again but not always.

### The three violations

1. **A torn write takes the next record with it** (`AuditLogTornWrite`;
   `log.go:131`). After a partial write the log stays open and the next record is
   written onto the fragment's line. It is acknowledged and its call forwarded,
   but the line is not JSON: `Verify` fails, and `Open` refuses the file.
   `log.go:112` promises one record per `Append`. What *does* hold then is
   `VerifiedHoldsAcked`: such a log never verifies again, so nobody is told that it is
   complete.
2. **A dropped flush error and a crash reuse a token** (`GatewayFlushFails`;
   `redact.go:125` against `README.md:366`).
3. **The cut may fall inside a value with whitespace** (`StreamCutsCard`;
   `stream.go:288` against `stream.go:274` and `README.md:224`). The tail protects
   a value that is still arriving, not one that has arrived. A PEM key is held while
   its block is open; when its end has come it is cut like any other value.

### The exceptions the passing properties name

A property that holds except in a known case says so in its definition, so that
the run shows that nothing *else* is an exception.

- *A torn tail* (`log.go:88-100`): a power loss may leave a part of the last record. `Open`
  accepts it when only its newline is missing, and the next record, glued to it, is
  acknowledged although no reader takes its line: `tailTorn` in `ChainIntact`,
  `AckedDurable` and `ImplementsLedger`. No write and no sync has failed then, so the
  properties say what is left: an unreadable line stands before every such record, where
  `Verify` stops. `VerifiedHoldsAcked` needs no exception.
- *Edits that leave the joined text as it is* (`log.go:49`): a newline moved from the path
  to the model name changes the record and not its hash. `EditDetected` is about `Edits`,
  those that change the text.
- *Logs of another height, and payload texts that are no hashes* (`merkle.go:30`,
  `verify.go:77`): `pairHash` puts nothing before what it hashes that would tell a leaf from
  a node, and `Verify` takes any text for a payload hash. A log made anew may have the nodes of
  one level of another's tree for its payload hashes, and then has its root:
  `ProofTellsLogsApart` allows this, and the repetition of last records, and nothing else.
  Payload hashes that are not 64 lower-case digits are not among `LeafHashes`: the same
  digits in capitals, or several such texts joined otherwise, decode or join to the same
  bytes.
- *The line a broken connection cuts* (`stream.go:133-136` against `README.md:222-224`) is
  not JSON, and reaches the client as the model sent it, with the values in it. It is no
  data line of `SeenIsRedacted`, and `NothingHeldBack` leaves such an answer out.
- *A rejected longer match* (`redact.go:170-172`): patterns are greedy, so a card with digits
  beside it is one match, which fails the Luhn test and is left as text, card and all:
  `SwallowedAt` in `NothingWholeLeft` (which asks it of the very place in the text before
  redaction) and in `RedactedStays`.
- *What the NER service finds later* (`ner.go:50`): a redacted text that is sent again takes
  new tokens for what the service had missed. `RedactedStays` says that they are the only
  ones.
- *A finish chunk with text* (`stream.go:137`): the end of a value that comes in the
  chunk with `finish_reason` leaves raw, after the event that ended its choice:
  `EndsWithText` in `SeenIsRedacted` and `NoTextAfterEnd`.
- *A token typed by hand* before it is assigned: not among the `Prompts` of `RoundTrip`.
- *A keyed secret that is a token* (`detectors.go:11`, `vault.go:122`, against
  `README.md:167`): the pattern of keyed secrets takes the token of a JWT, of an
  armored key or of the EU pack that stands behind `token:`, and `Reveal` gives that
  token back. `MeaningKept` shows that nothing is lost (revealing again restores the
  text) and `RevealExactOutsideSecrets` that no other kind is concerned.
- *Kinds with an underscore* (`[ACCOUNT_NUMBER_1]`, `[OTHER_PII_1]` of
  `ner/pii-tracer`) are stored but not matched by `vault.go:23`: `Lettered` in
  `RevealExactOutsideSecrets` and `RevealsPersisted`.
- *Thinking blocks under auto-reveal* (`reveal.go:22` against `README.md:218`):
  revealing restores every string of an answer, also of a signed block, which then
  goes back to the provider changed: `ThinkingIntactUnlessRevealed`.
- *Places no walk visits*: a value there goes to the provider as it stands. With
  auto-reveal a token that the model puts there comes back as its value:
  `exposed` and `unwalked` in `LeavesOnlyOutside` and `HistoryAsSeen`.
- *A restart under load* can fork the chain: `serve` removes its pid file, which is
  all that `stop` waits for, before the log is closed and requests in flight are done
  (`serve.go:121`): "late" in `RestartsKeepFiles`.
- *A record too long to be read again* (`log.go:87`) is written and acknowledged, and
  the log neither opens nor verifies after it: `Scans` in `ChainIntact`.
- *Commands at once*: "overlap" in `Lifecycle`, `overlap` in `AnchorSwitch`.
- *A flush that failed*: `EscapedIsSaved` and `StreamSavedAtEnd` hold only as long as
  none has, and `StreamSavedAtEnd` says nothing of a stream still running: a crash in
  the middle of a stream loses the tokens it has sent, by design of the single flush
  at its end.

## 4. The proofs

TLAPS checks eight modules. The theorems are about `Spec` for any set of entries,
kinds, values, texts, blocks, requests, commands, gateways and intervals, and any bounds
that are natural numbers. The assumptions are `BoundsAssumption` (log and vault),
`LongAssumption`, `KindsAssumption`; for the gateway `RequestsAssumption` (finitely many requests: the log's
bound on lines is their number; any of them may make a record that is too long), `TokensAreNoValues` (a personal value is not itself a token of
the vault) and `FaultsAssumption`; `SwitchAssumption`; `LifecycleAssumption`; for anchoring `AnchoringAssumption`;
`StreamAssumption`; and for the round trip `ShapeAssumption` (a value is at least one word)
and `PromptsAssumption` (a prompt is of words). TLC evaluates each in the runs.

Four theorems about `Stream` name hypotheses of their own, because the code does not do
without them. `OneChoice`: an OpenAI answer has one choice, since the choices share
one carry (`stream.go:243`) and text would move between them. `PlainTexts`: no value has
whitespace inside, since the cut may fall there; `StreamCutsCard` shows what happens then.
This leaves out cards, IBANs and telephone numbers written in groups, and PEM keys, which are
lines; what is proved of streams is of the values without blanks.
`MixedTextsAssumption` in `MCStream` lets TLC confirm that the texts of `StreamFormats`
satisfy both, so the run that checks the properties is an instance of the theorems.

**AuditLog.** `ChainIntact` is not inductive: to extend a chain one must know
that the process continues it. The inductive invariant `IInv` is `TypeOK`, the shape
of the file (`Shape`: among others, an unterminated line is never one an fsync
covers, so what is synced stays), `InflightLast` (the record between write and sync is
the last line, or has spoilt it), `Clean` (without faults the chain is whole and
`log.seq` and `log.lastHash` are those of its last line, or one behind it during an `Append`; with a torn tail a line may be broken, and those before the first such are
whole), `AckedInPlace` (without faults an acknowledged record stands at its number, or
behind a broken line that is synced) and `AckedOrBroken`. The last carries the argument under faults,
where the file need not be a chain: an acknowledged record stands at its place
among the synced lines, *or some synced line already fails the verifier's check*. Both
are permanent, because synced lines are, and the second is how a record
glued to a fragment, or a number used twice, ends. `VerifiedHoldsAcked` follows at once.
`EditsAreDetected` needs no invariant but the shape: it follows from the definition
of `VerifyOK` and the injectivity of the hash on the *joined* text, for a file of any length.
`LogImplementsLedger` maps a completed `Sync` to `Confirm` or, after a fault,
`ConfirmUnsure`, the first fault to `Fail` and every other step to a stutter; for
`Confirm` it takes `Clean`, which says that the number `Append` returns is the
position of its line (a torn tail ends the numbering like a fault).

**Vault.** `VInv` adds to the checked invariants that the file's map is itself one to
one (`DiskSound`), that memory contains the file (`MemoryAhead`) and that the
temporary file holds the current map while a flush is under way (`FlushSound`).
Without `DiskSound` reopening could not rebuild an inverse, and without
`MemoryAhead` a rename could take a token out of the file (`PersistedForever`).

**Gateway.** The theorems about log and vault are used as they stand:
`ComponentsUsedAsSpecified` shows that every step of a handler, of a crash and of a start
is a step of `AuditLog` or a stutter, and one of `Vault` or a stutter, however the
handlers interleave. So `IInv` and `VInv` hold inside the gateway, and so do
`ImplementsLedger` and `PersistedForever` (`GatewayKeepsLedgerAndVault`). `GInv` adds what
joins them to the handlers. `OwnsInflight`: the record between write and sync is that of
the handler that waits for it, since the log is locked; without it an `Append` could
acknowledge another's body. `TokensKnown`: what a handler holds is values, and tokens in memory.
`SavedBehindFlush`: past its flush, a handler's tokens are in the *file*, also when
another handler's flush put them there, because `dirty` was false; this is where the
vault's `CleanIsSaved` is needed. `TokensStayAgreed` puts three of these together: what has been sent
was saved before, what is saved stays, also over crashes, and the map of the file is one
to one; so two bodies, of any two moments, do not have one token for two values, nor two
tokens for one. `VerifiedLogAccountsForAll` then follows from
`AckedOrBroken` of the log.

**Anchoring.** `AnchoredLogIsLog` shows that every step of the gateway, of the machine and
of an anchorer is a step of `AuditLog` or a stutter; so `IInv`, and with it all that is
proved of the log, holds here too (`AnchoredLogKeepsPromises`). `AInv` relates what an
anchorer has read to the file. It cannot say that the lines are still there as they
were read: the last of them may have been unterminated, and a later record is then
glued to it. It says that each line *is what was read, or is broken* (`Covers`), for the
readings of both anchorers and for some reading whose root is in the proof file.
A line once broken stays broken, so a log that verifies has the reading as its beginning
(`ProofsStayProvable`). `ProofsTellLogsApart` is about the tree alone, and
rests on no assumption about its leaves. A tree has a height (`HeightExists`), and one of fewer leaves is not
higher (`ShorterIsLower`). From two equal roots one goes down in both trees together:
the levels are `Alike` (equal as far as both go, and with the same members), since two equal
nodes have equal pairs under them and only a last node is duplicated (`AlikeBelow`), until the
lower tree has reached its leaves (`RootTells`). With one height these are the leaves of both; else they are
a level of the higher tree, which is the exception the property names.

**Stream.** Four invariants, each on top of the one before. `StreamTypes` says among
others what may be left of an event on the wire and what of it is held (`WireShape`); from
this `EventsPaired` follows with `PairedInv`, which adds that an event line already
written is the last line only when the body is over. `Order` says where held text belongs:
to a block whose end the client has not been given (`HeldAlive`), which is the block
whose text comes next, and that an end still on the wire is of a block in its turn. With it
`Quiet`, the same formula as `NoTextAfterEnd`, is inductive. `Plain` is that whitespace in a
text is a space and no character of a value. `Content` is the heart: the text of every
block that has been read splits into three (`Split`): what came before a chunk that ended
the choice and brought text, nothing in every other case; what has been released since;
and what is held. The client has the redaction of the first two one after the other; the
held part begins behind a space, if anything was released, as long as more may be read;
and it is in the carry, or was lost when the connection broke inside a line. The steps rest on two lemmas. `RedactConcat`: the
redaction of a text cut behind a space is that of its two parts, since no value stands
across the cut; without `PlainTexts` it is false, which is the finding. `TextConcat`:
the texts of the lines a step writes are appended to what each block already had. `SeenIsRedacted`
is then `Content` at any moment, `NothingHeldBack` is `Content` with nothing left to hold.

**RoundTrip.** `RTInv` is about the state between two redactions: every text is of words and
assigned tokens, the vault is `Sound`, `result` stands for what `given` stands for, and
`result` is `Clear` of each pass with a fixed pattern. That is: a value such a pass accepts
stands in it only if it stood in `given`, at the place of the same meaning, inside a match that was
rejected (`Excused`); and nothing stands behind `bearer`. `Sound` says that a token's
content is older than the token, so that what it stands for is defined (`Stands`) and does
not change with later assignments (`MeaningGrows`), and that only a keyed secret may have a token
for its content. The rest is about one step of a pass, carried over the positions of a text
(`ApplyDoes`) and over the passes (`RedactDoes`). `StepKeepsMeaning`: a text's meaning is the
meanings of its parts put together (`MeaningConcat`), and a token stands for exactly the
words it was put in the place of. `StepCopies`: the words that a pass leaves are copies, in one piece
from token to token, of words that stood where it did not match or rejected what it
matched. So what stands in the result of *any* pass stood before it (`Came`, `CopiesCame`,
`StoodBefore`), and so did the rejected match around it (`SwallowedBefore`), each at the place
with the same meaning before it. A value a pass accepts is therefore left by its own
pass only in a rejected match, and no later pass, whatever it puts where, makes another one:
that is `NothingWholeLeft`. When nothing was rejected, the fixed passes find nothing in their own
result (`NothingAccepted`), and a second redaction is the pass of the NER service alone
(`LastPassOnly`), whatever that finds. It is not so for keyed secrets, which take a token too;
hence the condition in `RedactedStays`.

Three of the modules need induction: over the levels of a tree (`Anchoring`), the length
of a text (`Stream`, `RoundTrip`), and the tokens, positions and passes of `RoundTrip`. The
library's theorems for it take an operator, which the provers cannot instantiate; instead
`LeastNumber` and `Induction` state it for a *set* of numbers, and a recursive function
(`Levels`, `Stands`, those inside `Apply` and `Redact`, the `FlattenSeq` of the
library) is shown to exist by finite approximations (`ClimbsExist`,
`LevelsRecursion`, `StandsExist`, `ScansExist`, `PassesExist`, `FlattenIs`).

**AnchorSwitch.** `SwitchInv` says of commands that come one at a time that until the one
at work has emptied the file, the file reads as `wish`; that what it has read is what
`wish` will be; and that from then on the file is empty. `OffStaysOff` needs one fact
more: in the moment the file is empty it reads as off.

**Lifecycle.** `OneServer` is not inductive: `start` creates a process before it writes
its pid, and `serve` reads the pid file before it removes it. `Order` says what is so in
between, as long as none of the three troubles has happened: a process that serves
is recorded, or is about to be by the one command that runs; a command about to create a
process, or to clear the pid file, does so while nobody serves; a gateway about to remove the
pid file finds its own in it. `Files` then carries the log and the vault: a
gateway that has read them, and has not begun to leave, knows all of what they hold.

**Only model-checked**: the four invariants of `Walkers`, whose walks recur over trees by
`RECURSIVE` operators, which the prover does not take, and would need an induction over
trees; every liveness property, since the prover does not reach fairness; and what the
three violations show. Every other invariant and action property of a run is a theorem.

## 5. Not modelled

- *Several choices in one OpenAI answer* (`n` > 1). They share one carry and what is
  flushed goes to choice 0 (`stream.go:243`); the properties about blocks would not
  even be stated of such an answer, of which the documentation says nothing.
- *What JSON does to a text or a number*: quotes and newlines of a revealed original in
  a fragment of tool arguments, integers beyond 2^53 (`request.go:31`).
- *A power loss under the vault*: its file is renamed without an fsync, and what is left
  then depends on the file system.
- *A provider that never answers*, or never ends its answer: the model has it, since its
  steps are the environment's, but no property is about it; nothing in the code ends
  such a request.
- *Usage scanner* (`proxy/usage.go`): counts for the metrics what passes through it, and
  hands every byte on as it is; no decision depends on the count.
- *Log summary* (`audit/summary.go`), `Recent`, the web page, `status`, `verify`: readers of
  the log file that repeat the checks of `Verify`, and change nothing.
- *Configuration, metrics*: read once, or written only; nothing the gateway decides by
  changes while it runs.
- *Patterns and check digits*: what a detector matches and whether its validator accepts it
  is given to the models (`Shape`), and unit tests reach it; what follows from a match or a
  rejection, and what one pass does to another's result, is in `RoundTrip`.
- *Routing and headers* of the handler, which touch neither file.
- The NER service, the calendars, cryptography: other programs and libraries.

## 6. Running

    tlc -workers 2 -config AnchoredLog.cfg MCAnchoring.tla
    tlapm AuditLogProofs.tla

The module of each run is named in `PROJECT.json`.
