------------------------------ MODULE Lifecycle ------------------------------
(***************************************************************************)
(* The background gateway and the commands that start, stop and restart it *)
(* (cmd/sphragis/daemon.go, serve.go and internal/control/control.go).  A  *)
(* command and a gateway are processes; they meet in the pid file, in the  *)
(* listening port, in signals, and in the audit log and the vault file.    *)
(*                                                                         *)
(* A gateway reads the vault and the log once, when it opens them, and     *)
(* continues from what it read.  The log is the sequence of its records'   *)
(* numbers, the vault the number of tokens in its file: a record or a map  *)
(* written by a process that read an older state shows in both.            *)
(*                                                                         *)
(* Process ids grow and are not reused.  Writing the pid file is one step: *)
(* a reader that finds it empty acts as if there were none.                *)
(***************************************************************************)
EXTENDS Naturals, Sequences, FiniteSets

CONSTANTS
    MaxCommands, \* bound on the invocations of start, stop and restart
    MaxGateways, \* bound on the processes that start creates
    MaxActive,   \* how many commands may run at once
    MaxRequests, \* bound on requests handled
    MaxFailures  \* bound on gateways that die by themselves and on starts that fail

ASSUME LifecycleAssumption ==
    /\ MaxCommands \in Nat /\ MaxGateways \in Nat
    /\ MaxActive \in Nat /\ MaxRequests \in Nat /\ MaxFailures \in Nat

Commands == 1..MaxCommands    \* in the order they are called
Gateways == 1..MaxGateways    \* by process id
NoPid    == 0

VARIABLES
    op,         \* command -> what it was called for
    at,         \* command -> where it is
    aim,        \* command -> the process it has created or is stopping
    pidfile,    \* the recorded process id, or NoPid
    port,       \* the process that listens, or NoPid
    phase,      \* gateway -> where serve is
    signalled,  \* the processes SIGTERM was sent to
    bound,      \* the processes that have listened, and may have requests in flight
    vaultSeen,  \* gateway -> the tokens it knows
    logSeen,    \* gateway -> Log.seq
    vault,      \* the tokens in the vault file
    log,        \* the sequence numbers of the records in the log file
    failures,
    trouble     \* history: what has happened of "overlap", "gave up", "no pid", "late"

vars == <<op, at, aim, pidfile, port, phase, signalled, bound, vaultSeen, logSeen,
          vault, log, failures, trouble>>
commands == <<op, at, aim>>
gateways == <<port, phase, bound>>
files == <<vaultSeen, logSeen, vault, log>>

-----------------------------------------------------------------------------
Alive(p) == phase[p] \notin {"none", "exited"}

\* control.Running: the recorded process, when there is one and it takes a signal.
Running == pidfile # NoPid /\ Alive(pidfile)

Active == {c \in Commands : at[c] \notin {"idle", "done"}}

LastSeq == IF log = <<>> THEN 0 ELSE log[Len(log)]

\* Command c goes on at next, with a process id it has to do with.
GoWith(c, next, pid) ==
    /\ at' = [at EXCEPT ![c] = next]
    /\ aim' = [aim EXCEPT ![c] = pid]
    /\ op' = IF next = "done" THEN [op EXCEPT ![c] = "none"] ELSE op

Step(c, next) == GoWith(c, next, NoPid)

Enter(p, next) == phase' = [phase EXCEPT ![p] = next]

\* The end of a process takes its memory along.
Leave(p) ==
    /\ Enter(p, "exited")
    /\ signalled' = signalled \ {p} /\ bound' = bound \ {p}
    /\ vaultSeen' = [vaultSeen EXCEPT ![p] = 0]
    /\ logSeen' = [logSeen EXCEPT ![p] = 0]

Init ==
    /\ op = [c \in Commands |-> "none"]
    /\ at = [c \in Commands |-> "idle"]
    /\ aim = [c \in Commands |-> NoPid]
    /\ pidfile = NoPid /\ port = NoPid
    /\ phase = [p \in Gateways |-> "none"]
    /\ signalled = {} /\ bound = {}
    /\ vaultSeen = [p \in Gateways |-> 0] /\ logSeen = [p \in Gateways |-> 0]
    /\ vault = 0 /\ log = <<>>
    /\ failures = 0 /\ trouble = {}

-----------------------------------------------------------------------------
(* start *)

\* A command is called, perhaps while another runs.
Call(c, name) ==
    /\ at[c] = "idle" /\ \A d \in 1..(c - 1) : at[d] # "idle"
    /\ Cardinality(Active) < MaxActive
    /\ op' = [op EXCEPT ![c] = name]
    /\ at' = [at EXCEPT ![c] = IF name = "start" THEN "start" ELSE "stop"]
    /\ trouble' = IF Active = {} THEN trouble ELSE trouble \cup {"overlap"}
    /\ UNCHANGED <<aim, pidfile, gateways, signalled, files, failures>>

\* Faulty: start does not look whether a gateway runs.
StartBlind(c) ==
    /\ at[c] = "start"
    /\ Step(c, "spawn")
    /\ UNCHANGED <<pidfile, gateways, signalled, files, failures, trouble>>

StartChecks(c) ==
    /\ at[c] = "start"
    /\ Step(c, IF Running THEN "done" ELSE "spawn")
    /\ UNCHANGED <<pidfile, gateways, signalled, files, failures, trouble>>

Spawn(c, p) ==
    /\ at[c] = "spawn"
    /\ phase[p] = "none" /\ \A q \in 1..(p - 1) : phase[q] # "none"
    /\ Enter(p, "spawned")
    /\ GoWith(c, "record", p)
    /\ UNCHANGED <<pidfile, port, signalled, bound, files, failures, trouble>>

\* The home, the gateway's output file or the process cannot be made: start returns the
\* error, and no process is left behind.
SpawnFails(c) ==
    /\ at[c] = "spawn" /\ failures < MaxFailures
    /\ Step(c, "done")
    /\ failures' = failures + 1
    /\ UNCHANGED <<pidfile, gateways, signalled, files, trouble>>

WritePID(c) ==
    /\ at[c] = "record"
    /\ pidfile' = aim[c]
    /\ Step(c, "done")
    /\ UNCHANGED <<gateways, signalled, files, failures, trouble>>

\* start returns the error; the process it has created runs on.
WritePIDFails(c) ==
    /\ at[c] = "record" /\ failures < MaxFailures
    /\ Step(c, "done")
    /\ failures' = failures + 1
    /\ trouble' = trouble \cup {"no pid"}
    /\ UNCHANGED <<pidfile, gateways, signalled, files>>

-----------------------------------------------------------------------------
(* stop; restart ignores its result and goes on with start *)

AfterStop(c) == IF op[c] = "restart" THEN "start" ELSE "done"

StopChecks(c) ==
    /\ at[c] = "stop"
    /\ IF Running THEN GoWith(c, "signal", pidfile) ELSE Step(c, "clear")
    /\ UNCHANGED <<pidfile, gateways, signalled, files, failures, trouble>>

\* Faulty: a signal that fails is sent again until it does not.
SignalAgain(c) ==
    /\ at[c] = "signal" /\ Alive(aim[c])
    /\ signalled' = signalled \cup {aim[c]}
    /\ Step(c, "wait")
    /\ UNCHANGED <<pidfile, gateways, files, failures, trouble>>

\* A process that has just ended takes no signal: stop returns at once.
Signal(c) ==
    /\ at[c] = "signal"
    /\ IF Alive(aim[c])
       THEN signalled' = signalled \cup {aim[c]} /\ Step(c, "wait")
       ELSE signalled' = signalled /\ Step(c, AfterStop(c))
    /\ UNCHANGED <<pidfile, gateways, files, failures, trouble>>

\* Faulty: stop does not wait for the end of the process.
NoWait(c) ==
    /\ at[c] = "wait"
    /\ Step(c, "clear")
    /\ UNCHANGED <<pidfile, gateways, signalled, files, failures, trouble>>

\* Polling ends when no running process is recorded.
StopSees(c) ==
    /\ at[c] = "wait" /\ ~Running
    /\ Step(c, "clear")
    /\ UNCHANGED <<pidfile, gateways, signalled, files, failures, trouble>>

\* Fifty polls in five seconds were not enough: stop goes on all the same.
StopGivesUp(c) ==
    /\ at[c] = "wait" /\ Running
    /\ Step(c, "clear")
    /\ trouble' = trouble \cup {"gave up"}
    /\ UNCHANGED <<pidfile, gateways, signalled, files, failures>>

RemovePID(c) ==
    /\ at[c] = "clear"
    /\ pidfile' = NoPid
    /\ Step(c, AfterStop(c))
    /\ UNCHANGED <<gateways, signalled, files, failures, trouble>>

-----------------------------------------------------------------------------
(* serve *)

OpenVault(p) ==
    /\ phase[p] = "spawned"
    /\ vaultSeen' = [vaultSeen EXCEPT ![p] = vault]
    /\ Enter(p, "vault open")
    /\ UNCHANGED <<commands, pidfile, port, signalled, bound, logSeen, vault, log,
                   failures, trouble>>

OpenLog(p) ==
    /\ phase[p] = "vault open"
    /\ logSeen' = [logSeen EXCEPT ![p] = LastSeq]
    /\ Enter(p, "open")
    /\ UNCHANGED <<commands, pidfile, port, signalled, bound, vaultSeen, vault, log,
                   failures, trouble>>

\* ListenAndServe: another listener is an error, and serve goes on to its end.
Listen(p) ==
    /\ phase[p] = "open"
    /\ IF port = NoPid
       THEN port' = p /\ bound' = bound \cup {p} /\ Enter(p, "listening")
       ELSE UNCHANGED <<port, bound>> /\ Enter(p, "ending")
    /\ UNCHANGED <<commands, pidfile, signalled, files, failures, trouble>>

\* A request takes a token and a record.  One that is in flight when the listener
\* closes may do so until the process has ended.
HandleRequest(p) ==
    /\ p \in bound /\ Alive(p)
    /\ Len(log) < MaxRequests
    /\ vaultSeen' = [vaultSeen EXCEPT ![p] = @ + 1]
    /\ vault' = vaultSeen[p] + 1
    /\ logSeen' = [logSeen EXCEPT ![p] = @ + 1]
    /\ log' = Append(log, logSeen[p] + 1)
    /\ trouble' = IF phase[p] = "leaving" THEN trouble \cup {"late"} ELSE trouble
    /\ UNCHANGED <<commands, pidfile, gateways, signalled, failures>>

\* Faulty: the listener is closed only when no request is in flight any more.
ShutdownWaits(p) ==
    /\ p \in signalled /\ phase[p] = "listening" /\ p \notin bound
    /\ port' = NoPid
    /\ Enter(p, "ending")
    /\ UNCHANGED <<commands, pidfile, signalled, bound, files, failures, trouble>>

\* SIGTERM: Shutdown closes the listener, and ListenAndServe returns at once.
Shutdown(p) ==
    /\ p \in signalled /\ phase[p] = "listening"
    /\ port' = NoPid
    /\ Enter(p, "ending")
    /\ UNCHANGED <<commands, pidfile, signalled, bound, files, failures, trouble>>

\* SIGTERM before that: by default it ends the process; once a handler is installed
\* ListenAndServe returns without having listened.
Terminated(p) ==
    /\ p \in signalled /\ phase[p] \in {"spawned", "vault open", "open"}
    /\ \/ Leave(p)
       \/ /\ phase[p] = "open" /\ Enter(p, "ending")
          /\ UNCHANGED <<signalled, bound, vaultSeen, logSeen>>
    /\ UNCHANGED <<commands, pidfile, port, vault, log, failures, trouble>>

\* serve removes the pid file when it reads its own id there.
ReadPID(p) ==
    /\ phase[p] = "ending"
    /\ Enter(p, IF pidfile = p THEN "unrecording" ELSE "leaving")
    /\ UNCHANGED <<commands, pidfile, port, signalled, bound, files, failures, trouble>>

Unrecord(p) ==
    /\ phase[p] = "unrecording"
    /\ pidfile' = NoPid
    /\ Enter(p, "leaving")
    /\ UNCHANGED <<commands, port, signalled, bound, files, failures, trouble>>

\* serve returns: the log is closed and the process ends.
Exit(p) ==
    /\ phase[p] = "leaving"
    /\ Leave(p)
    /\ UNCHANGED <<commands, pidfile, port, vault, log, failures, trouble>>

\* A gateway dies by itself: an error while it opens its files, a crash, a kill.
Die(p) ==
    /\ Alive(p) /\ failures < MaxFailures
    /\ Leave(p)
    /\ port' = IF port = p THEN NoPid ELSE port
    /\ failures' = failures + 1
    /\ UNCHANGED <<commands, pidfile, vault, log, trouble>>

-----------------------------------------------------------------------------
Starting(c) ==
    \/ StartChecks(c) \/ (\E p \in Gateways : Spawn(c, p)) \/ SpawnFails(c)
    \/ WritePID(c) \/ WritePIDFails(c)

Stopping(c) ==
    \/ StopChecks(c) \/ Signal(c) \/ StopSees(c) \/ StopGivesUp(c) \/ RemovePID(c)

Opening(p) == OpenVault(p) \/ OpenLog(p) \/ Listen(p)

Ending(p) == Shutdown(p) \/ Terminated(p) \/ ReadPID(p) \/ Unrecord(p) \/ Exit(p)

Next ==
    \/ \E c \in Commands :
          (\E name \in {"start", "stop", "restart"} : Call(c, name)) \/ Starting(c) \/ Stopping(c)
    \/ \E p \in Gateways : Opening(p) \/ HandleRequest(p) \/ Ending(p) \/ Die(p)

\* A process that can take a step takes it; nobody has to call or to send requests.
Fairness ==
    /\ \A c \in Commands : WF_vars(Starting(c) \/ Stopping(c))
    /\ \A p \in Gateways : WF_vars(Opening(p)) /\ WF_vars(Ending(p))

Spec == Init /\ [][Next]_vars /\ Fairness

-----------------------------------------------------------------------------
(* Properties *)

TypeOK ==
    /\ op \in [Commands -> {"none", "start", "stop", "restart"}]
    /\ at \in [Commands -> {"idle", "start", "spawn", "record", "stop", "signal",
                            "wait", "clear", "done"}]
    /\ aim \in [Commands -> Gateways \cup {NoPid}]
    /\ \A c \in Commands : at[c] \in {"record", "signal"} => aim[c] # NoPid
    /\ pidfile \in Gateways \cup {NoPid} /\ port \in Gateways \cup {NoPid}
    /\ phase \in [Gateways -> {"none", "spawned", "vault open", "open", "listening",
                               "ending", "unrecording", "leaving", "exited"}]
    /\ signalled \subseteq Gateways /\ bound \subseteq Gateways
    /\ \A p \in signalled \cup bound : Alive(p)
    /\ vaultSeen \in [Gateways -> Nat] /\ logSeen \in [Gateways -> Nat]
    /\ vault \in Nat /\ log \in Seq(Nat \ {0})
    /\ failures \in 0..MaxFailures
    /\ trouble \subseteq {"overlap", "gave up", "no pid", "late"}

\* As long as commands came one at a time, none gave up and the pid file could be
\* written, a gateway that answers calls is the recorded one whenever no command
\* runs: the next stop finds it, the next start does not start a second.
ServerIsRecorded ==
    trouble \cap {"overlap", "gave up", "no pid"} = {} /\ Active = {} =>
        \A p \in Gateways : phase[p] = "listening" => pidfile = p

\* Under the same conditions at most one gateway is on its way to or at its port:
\* a second is created only after the first has let go of the port and the pid file.
OneServer ==
    trouble \cap {"overlap", "gave up", "no pid"} = {} =>
        \A p, q \in Gateways :
            Alive(p) /\ Alive(q) /\ p # q => "leaving" \in {phase[p], phase[q]}

ChainWhole == \A i \in 1..Len(log) : log[i] = i

\* When none of the four things happened, any number of starts, stops, restarts and
\* crashes under load leave one chain, and a vault file with every token in it, although
\* each process writes the file as a whole: each continues where the last ended.
RestartsKeepFiles == trouble = {} => ChainWhole /\ vault = Len(log)

\* A gateway that was told to end has ended some time later, and every command
\* returns, whatever else is going on.
SignalledEnds == \A p \in Gateways : p \in signalled ~> ~Alive(p)
CommandsReturn ==
    \A c \in Commands : at[c] \notin {"idle", "done"} ~> at[c] \in {"spawn", "done"}

=============================================================================
