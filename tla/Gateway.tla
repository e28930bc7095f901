------------------------------ MODULE Gateway -------------------------------
(***************************************************************************)
(* Handler.ServeHTTP and writeResponse (internal/proxy/proxy.go): every    *)
(* request is a goroutine that redacts the body through the vault, saves   *)
(* the vault, appends a record to the audit log, forwards the redacted     *)
(* body and relays the redacted answer.  The goroutines share one Log and  *)
(* one Vault, whose operations this module takes from AuditLog and Vault;  *)
(* the process may stop and start again at any step.                       *)
(*                                                                         *)
(* A body is the set of the values in it that the detectors find.  What    *)
(* leaves the gateway is a set of items, each a token or a value.  All     *)
(* values are of one detector kind.  A request is one the gateway can      *)
(* parse, or an opaque one it forwards as it is.  The path of a record     *)
(* names the request.                                                      *)
(***************************************************************************)
EXTENDS Naturals, Sequences, FiniteSets

CONSTANTS
    Requests,       \* the requests clients make, each handled once
    LongRequests,   \* of them: those whose record no reader of the log takes
    Kind,           \* the detector kind of the values
    Values,         \* the sensitive values
    Answers,        \* the content types of upstream answers: "json", "sse", "other"
    MaxLogFaults,   \* bound on failed writes and syncs of the audit log
    MaxVaultFaults, \* bound on failed vault flushes
    MaxCrashes      \* bound on process crashes

ASSUME AnswersAssumption == Answers \subseteq {"json", "sse", "other"}
ASSUME RequestsAssumption == IsFiniteSet(Requests) /\ LongRequests \subseteq Requests
ASSUME TokensAreNoValues == Values \cap ({Kind} \X Nat) = {}
ASSUME FaultsAssumption ==
    MaxLogFaults \in Nat /\ MaxVaultFaults \in Nat /\ MaxCrashes \in Nat

VARIABLES
    (* the audit log *)
    file, terminated, synced, log, inflight, acked, logFaults,
    tailTorn,   \* FALSE: the machine does not stop here, the process does
    (* the vault *)
    running, fwd, rev, counter, dirty, flushing, disk, tmp, vaultFaults,
    crashes,
    (* the handlers *)
    pc,         \* request -> where its handler is
    todo,       \* request -> the values of the body (or answer) not yet redacted
    out,        \* request -> the items of the redacted body (or answer)
    (* history *)
    forwarded,  \* the entries of the requests that were sent upstream
    escaped,    \* <<token, value>> in a forwarded body or a JSON answer
    streamed    \* <<request, token, value>> sent to the client in a stream

logVars   == <<file, terminated, synced, log, inflight, acked, logFaults, tailTorn>>
vaultVars == <<running, fwd, rev, counter, dirty, flushing, disk, tmp, vaultFaults>>
handlers == <<pc, todo, out>>
history  == <<forwarded, escaped, streamed>>

Items == Values \cup ({Kind} \X (Nat \ {0}))

\* What is appended for some of the requests.
EntriesOf(requests) ==
    [path : {<<r>> : r \in requests}, model : {<<>>}, payload : SUBSET Items]

L == INSTANCE AuditLog WITH
        Entries <- EntriesOf(Requests),
        Long <- EntriesOf(LongRequests),
        MaxLines <- Cardinality(Requests),
        MaxFaults <- MaxLogFaults, faults <- logFaults

V == INSTANCE Vault WITH
        Kinds <- {Kind}, Lettered <- {Kind}, MaxFaults <- MaxVaultFaults, faults <- vaultFaults

vars == <<logVars, vaultVars, crashes, handlers, history>>

Goto(r, label) == pc' = [pc EXCEPT ![r] = label]

Ended == {"done", "rejected", "lost"}

\* The handler returns; the body or answer it held is gone.
Return(r, label) ==
    /\ Goto(r, label)
    /\ todo' = [todo EXCEPT ![r] = {}]
    /\ out' = [out EXCEPT ![r] = {}]

-----------------------------------------------------------------------------
Init ==
    /\ L!Init /\ V!Init
    /\ pc = [r \in Requests |-> "idle"]
    /\ todo = [r \in Requests |-> {}]
    /\ out = [r \in Requests |-> {}]
    /\ forwarded = {} /\ escaped = {} /\ streamed = {}

\* serve opens the vault, then the log, then listens.
Start ==
    /\ V!Open /\ L!Open
    /\ UNCHANGED <<handlers, history>>

\* The process stops: the handlers are gone with it.
Stop ==
    /\ V!Crash /\ L!Crash
    /\ pc' = [r \in Requests |-> IF pc[r] = "idle" THEN "idle" ELSE
                                 IF pc[r] \in Ended THEN pc[r] ELSE "lost"]
    /\ todo' = [r \in Requests |-> {}] /\ out' = [r \in Requests |-> {}]
    /\ UNCHANGED history

-----------------------------------------------------------------------------
(* Redacting a body or an answer *)

\* The token Assign returns for v.
TokenFor(v) ==
    IF <<Kind, v>> \in DOMAIN rev THEN rev[<<Kind, v>>]
    ELSE V!Token(Kind, counter[Kind] + 1)

\* One value replaced by its token: one Assign, under the vault's lock.
Replace(r, v) ==
    /\ v \in todo[r]
    /\ V!Assign(Kind, v)
    /\ todo' = [todo EXCEPT ![r] = @ \ {v}]

\* And the body or answer has the token in its place.
ReplaceHeld(r, v) ==
    /\ Replace(r, v)
    /\ out' = [out EXCEPT ![r] = (@ \ {v}) \cup {TokenFor(v)}]

\* redact.FlushVault, whose error is dropped: the handler goes on either way.
\* With the lock held by another handler it waits.
FlushVault(r, here, inside, next) ==
    /\ \/ /\ pc[r] = here /\ V!Unlocked /\ ~dirty
          /\ Goto(r, next)
          /\ UNCHANGED <<vaultVars, crashes>>
       \/ /\ pc[r] = here /\ V!FlushWrite
          /\ Goto(r, inside)
       \/ /\ pc[r] = here /\ V!FlushWriteFails
          /\ Goto(r, next)
       \/ /\ pc[r] = inside /\ (V!FlushRename \/ V!FlushRenameFails)
          /\ Goto(r, next)
    /\ UNCHANGED <<logVars, todo, out, history>>

\* The pairs a set of items says something about, by the maps of now.
Pairs(items) == {<<t, fwd[t]>> : t \in items \cap DOMAIN fwd}

-----------------------------------------------------------------------------
(* The request *)

\* The body is read; RedactRequest parses it, or it is forwarded as it is.
Receive(r, body, isJSON) ==
    /\ pc[r] = "idle" /\ running
    /\ todo' = [todo EXCEPT ![r] = IF isJSON THEN body ELSE {}]
    /\ out' = [out EXCEPT ![r] = body]
    /\ Goto(r, "redact")
    /\ UNCHANGED <<logVars, vaultVars, crashes, history>>

RedactValue(r, v) ==
    /\ pc[r] = "redact"
    /\ ReplaceHeld(r, v)
    /\ UNCHANGED <<logVars, pc, history>>

\* Faulty: the vault is flushed only at the end of the answer.
RedactDoneUnsaved(r) ==
    /\ pc[r] = "redact" /\ todo[r] = {}
    /\ Goto(r, "append")
    /\ UNCHANGED <<logVars, vaultVars, crashes, todo, out, history>>

\* Faulty: a body in which nothing was redacted is passed on before the record is made.
RedactDoneUnrecorded(r) ==
    /\ pc[r] = "redact" /\ todo[r] = {}
    /\ Goto(r, IF out[r] \subseteq Values THEN "forward" ELSE "flush")
    /\ UNCHANGED <<logVars, vaultVars, crashes, todo, out, history>>

RedactDone(r) ==
    /\ pc[r] = "redact" /\ todo[r] = {}
    /\ Goto(r, "flush")
    /\ UNCHANGED <<logVars, vaultVars, crashes, todo, out, history>>

FlushRequest(r) == FlushVault(r, "flush", "flushing", "append")

Entry(r) == [path |-> <<r>>, model |-> <<>>, payload |-> out[r]]

\* Log.Append, first half: the record is written.
AppendWrite(r) ==
    /\ pc[r] = "append"
    /\ L!Write(Entry(r))
    /\ Goto(r, "sync")
    /\ UNCHANGED <<vaultVars, todo, out, history>>

\* Log.Append, second half: the record is on stable storage.
AppendSync(r) ==
    /\ pc[r] = "sync"
    /\ L!Sync
    /\ Goto(r, "forward")
    /\ UNCHANGED <<vaultVars, todo, out, history>>

\* Faulty: fail open.
AppendFailsOpen(r) ==
    /\ \/ pc[r] = "append" /\ \E torn \in L!Torn : L!WriteFails(Entry(r), torn)
       \/ pc[r] = "sync" /\ L!SyncFails
    /\ Goto(r, "forward")
    /\ UNCHANGED <<vaultVars, todo, out, history>>

\* Fail closed: the call that could not be recorded is answered with a 500.
AppendFails(r) ==
    /\ \/ pc[r] = "append" /\ \E torn \in L!Torn : L!WriteFails(Entry(r), torn)
       \/ pc[r] = "sync" /\ L!SyncFails
    /\ Return(r, "rejected")
    /\ UNCHANGED <<vaultVars, history>>

\* The upstream request cannot be made (NewRequest): 500, and the record stays.
ForwardFails(r) ==
    /\ pc[r] = "forward"
    /\ Return(r, "rejected")
    /\ UNCHANGED <<logVars, vaultVars, crashes, history>>

\* The redacted body is sent to the provider and needed no more.
Forward(r) ==
    /\ pc[r] = "forward"
    /\ forwarded' = forwarded \cup {Entry(r)}
    /\ escaped' = escaped \cup Pairs(out[r])
    /\ Goto(r, "await")
    /\ out' = [out EXCEPT ![r] = {}]
    /\ UNCHANGED <<logVars, vaultVars, crashes, todo, streamed>>

-----------------------------------------------------------------------------
(* The answer *)

\* The head of the answer arrives; a JSON body is read as a whole, a stream is relayed as
\* it comes, anything else is relayed as it is.
UpstreamAnswers(r, type) ==
    /\ pc[r] = "await"
    /\ Goto(r, CASE type = "json" -> "body" [] type = "sse" -> "sse" [] type = "other" -> "done")
    /\ UNCHANGED <<logVars, vaultVars, crashes, todo, out, history>>

\* The connection fails before the answer or in the middle of a JSON body, or the client
\* goes away and cancels it: 502.
UpstreamFails(r) ==
    /\ pc[r] \in {"await", "body"}
    /\ Goto(r, "done")
    /\ UNCHANGED <<logVars, vaultVars, crashes, todo, out, history>>

\* The last byte of a JSON body arrives.  One that does not parse is relayed as it is,
\* without a flush.
BodyArrives(r, values, isJSON) ==
    /\ pc[r] = "body"
    /\ todo' = [todo EXCEPT ![r] = IF isJSON THEN values ELSE {}]
    /\ out' = [out EXCEPT ![r] = values]
    /\ Goto(r, IF isJSON THEN "json" ELSE "reply")
    /\ UNCHANGED <<logVars, vaultVars, crashes, history>>

\* More of a stream arrives, one value at a time.
StreamArrives(r, v) ==
    /\ pc[r] = "sse" /\ todo[r] = {}
    /\ todo' = [todo EXCEPT ![r] = {v}]
    /\ UNCHANGED <<logVars, vaultVars, crashes, pc, out, history>>

\* The stream ends or its connection breaks.
StreamStops(r) ==
    /\ pc[r] = "sse"
    /\ Goto(r, "sseEnd")
    /\ UNCHANGED <<logVars, vaultVars, crashes, todo, out, history>>

RedactAnswer(r, v) ==
    /\ pc[r] = "json"
    /\ ReplaceHeld(r, v)
    /\ UNCHANGED <<logVars, pc, history>>

RedactAnswerDone(r) ==
    /\ pc[r] = "json" /\ todo[r] = {}
    /\ Goto(r, "flushAnswer")
    /\ UNCHANGED <<logVars, vaultVars, crashes, todo, out, history>>

\* A JSON answer is written to the client after its tokens were flushed.
FlushAnswer(r) == FlushVault(r, "flushAnswer", "flushingAnswer", "reply")

Reply(r) ==
    /\ pc[r] = "reply"
    /\ escaped' = escaped \cup Pairs(out[r])
    /\ Return(r, "done")
    /\ UNCHANGED <<logVars, vaultVars, crashes, forwarded, streamed>>

\* One value of a stream is redacted and written to the client at once.
StreamValue(r, v) ==
    /\ pc[r] \in {"sse", "sseEnd"}
    /\ Replace(r, v)
    /\ streamed' = streamed \cup {<<r, TokenFor(v), v>>}
    /\ UNCHANGED <<logVars, pc, out, forwarded, escaped>>

\* Faulty: only JSON answers flush the vault.
StreamEndsUnsaved(r) ==
    /\ pc[r] = "sseEnd" /\ todo[r] = {}
    /\ Goto(r, "done")
    /\ UNCHANGED <<logVars, vaultVars, crashes, todo, out, history>>

StreamEnds(r) ==
    /\ pc[r] = "sseEnd" /\ todo[r] = {}
    /\ Goto(r, "flushStream")
    /\ UNCHANGED <<logVars, vaultVars, crashes, todo, out, history>>

\* The vault is flushed once, when the whole stream has been relayed.
FlushStream(r) == FlushVault(r, "flushStream", "flushingStream", "done")

-----------------------------------------------------------------------------
Redacting(r) ==
    \/ \E v \in Values : RedactValue(r, v) \/ RedactAnswer(r, v) \/ StreamValue(r, v)
    \/ RedactDone(r) \/ RedactAnswerDone(r) \/ StreamEnds(r)

Recording(r) == AppendWrite(r) \/ AppendSync(r) \/ AppendFails(r)

Saving(r) == FlushRequest(r) \/ FlushAnswer(r) \/ FlushStream(r)

\* The steps a handler takes by itself.
Handle(r) ==
    Redacting(r) \/ Saving(r) \/ Recording(r) \/ Forward(r) \/ ForwardFails(r) \/ Reply(r)

\* The steps of clients and of the provider.
Environment(r) ==
    \/ \E body \in SUBSET Values, isJSON \in BOOLEAN : Receive(r, body, isJSON)
    \/ \E type \in Answers : UpstreamAnswers(r, type)
    \/ \E values \in SUBSET Values, isJSON \in BOOLEAN : BodyArrives(r, values, isJSON)
    \/ \E v \in Values : StreamArrives(r, v)
    \/ StreamStops(r) \/ UpstreamFails(r)

Next ==
    \/ Start
    \/ Stop
    \/ \E r \in Requests : Handle(r) \/ Environment(r)

\* The Go scheduler runs every goroutine that can run.  Nothing is assumed of the provider:
\* it may never answer, and never end an answer it has begun.
Fairness == \A r \in Requests : WF_vars(Handle(r))

Spec     == Init /\ [][Next]_vars
FairSpec == Spec /\ Fairness

-----------------------------------------------------------------------------
(* Properties *)

Labels == Ended \cup
    {"idle", "redact", "flush", "flushing", "append", "sync", "forward", "await",
     "body", "json", "flushAnswer", "flushingAnswer", "reply",
     "sse", "sseEnd", "flushStream", "flushingStream"}

TypeOK ==
    /\ L!TypeOK /\ V!TypeOK
    /\ pc \in [Requests -> Labels]
    /\ todo \in [Requests -> SUBSET Values]
    /\ out \in [Requests -> SUBSET Items]

\* Fail closed: a body that left for the provider has a record with the hash of
\* exactly that body whose Append returned, and as long as the log's disk has not
\* failed that record is on stable storage, whatever stopped since.
ForwardedIsRecorded ==
    \A e \in forwarded : \E rec \in acked :
        /\ rec.entry = e
        /\ logFaults = 0 => rec.seq <= synced /\ file[rec.seq] = rec

Saved(pair) == pair[1] \in DOMAIN disk.map /\ disk.map[pair[1]] = pair[2]

\* As long as no flush has failed, a token in a forwarded body or in a JSON answer
\* is in the vault file with its value from before it left: it can be revealed
\* after any crash.  The flush that saved it may have been another request's.
EscapedIsSaved == vaultFaults = 0 => \A pair \in escaped : Saved(pair)

\* As long as no flush has failed, the tokens of a stream are in the vault file
\* by the time its handler is done.
StreamSavedAtEnd ==
    vaultFaults = 0 =>
        \A s \in streamed : pc[s[1]] = "done" => Saved(<<s[2], s[3]>>)

\* As long as no flush has failed, two of the bodies, JSON answers and finished streams that
\* left have the same token for the same value and for no other, over concurrent requests,
\* crashes and restarts (README.md:366: "`[EMAIL_1]` always means the same address").
TokensAgree ==
    LET finished == {<<s[2], s[3]>> : s \in {s \in streamed : pc[s[1]] = "done"}} IN
    vaultFaults = 0 =>
        \A p, q \in escaped \cup finished : p[1] = q[1] <=> p[2] = q[2]

\* Whatever has failed, a log that verifies has a record of every body that was
\* forwarded: the provider never saw a call an auditor does not.
VerifiedLogAccountsForAll ==
    L!VerifyOK(file) =>
        \A e \in forwarded : \E i \in 1..Len(file) : file[i].entry = e

\* Every handler comes to its provider or to an end: the locks let it through.
RequestProceeds ==
    \A r \in Requests : pc[r] = "redact" ~> pc[r] \in {"await"} \cup Ended

\* Once the body of an answer has ended, its handler comes to an end too: the vault's lock
\* lets it through.  (A body that does not end keeps its handler: the client has no timeout.)
AnswerRelayed ==
    \A r \in Requests : pc[r] \in {"json", "sseEnd"} ~> pc[r] \in Ended

-----------------------------------------------------------------------------
(* A claim of the documentation that holds only in part *)

\* README.md:366: "`[EMAIL_1]` always means the same address".
TokenMeansOne ==
    LET seen == escaped \cup {<<s[2], s[3]>> : s \in streamed} IN
    \A p, q \in seen : p[1] = q[1] => p[2] = q[2]

=============================================================================
