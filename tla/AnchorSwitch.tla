---------------------------- MODULE AnchorSwitch ----------------------------
(***************************************************************************)
(* The switch of automatic anchoring: state.json (internal/control), the   *)
(* commands anchor on and anchor off, and the loop of the gateway that     *)
(* goes by it (cmd/sphragis/anchor.go, serve.go).  A command reads the     *)
(* file, changes what it has read and writes the file as a whole: there is *)
(* no lock, and os.WriteFile empties the file before it writes it.  The    *)
(* loop reads the interval, waits, and reads the switch.  What an          *)
(* anchoring does is module Anchoring.                                     *)
(***************************************************************************)
EXTENDS Naturals

CONSTANTS
    Commands,   \* the shells that call anchor on and anchor off, any number of times
    Intervals,  \* the intervals a user may give; one that does not parse waits like Day
    Zero, Day,  \* of them: those that parse to no time at all, and the default
    Same        \* no interval is given

ASSUME SwitchAssumption == Zero \subseteq Intervals /\ Day \in Intervals \ Zero /\ Same \notin Intervals

VARIABLES
    file,    \* state.json: its content, whole unless it is absent or empty
    at,      \* where each command is
    given,   \* what each command is to set
    read,    \* the state each command has read and changed
    loop,    \* where the loop is
    seen,    \* the state it has read before it began to wait
    stopping, \* the gateway was told to stop
    wish,    \* what the commands so far come to when each takes effect at its end
    overlap  \* whether two commands have run at once

commands == <<at, given, read, overlap>>
vars == <<file, at, given, read, loop, seen, stopping, wish, overlap>>

State == [on : BOOLEAN, interval : Intervals]

Default == [on |-> FALSE, interval |-> Day]

Holds(state) == [whole |-> TRUE, state |-> state]
Empty        == [whole |-> FALSE, state |-> Default]

\* LoadState: the defaults unless the file is there and whole.
Loaded == IF file.whole THEN file.state ELSE Default

Running == {c \in Commands : at[c] \in {"loaded", "truncated"}}

Init ==
    /\ file \in {Holds(state) : state \in State} \cup {Empty}
    /\ at = [c \in Commands |-> "idle"]
    /\ given = [c \in Commands |-> Default]
    /\ read = [c \in Commands |-> Default]
    /\ loop = "load" /\ seen = Default
    /\ stopping = FALSE
    /\ wish = Loaded
    /\ overlap = FALSE

-----------------------------------------------------------------------------
(* The commands *)

\* Faulty: the file is written from the defaults.
SetAnew(c, state) ==
    [on |-> given'[c].on, interval |-> IF given'[c].interval = Same THEN Day ELSE given'[c].interval]

\* What a command makes of a state: off, and on without an argument, keep the interval.
Set(c, state) ==
    [on |-> given'[c].on,
     interval |-> IF given'[c].interval = Same THEN state.interval ELSE given'[c].interval]

Load(c, on, interval) ==
    /\ at[c] = "idle"
    /\ given' = [given EXCEPT ![c] = [on |-> on, interval |-> interval]]
    /\ read' = [read EXCEPT ![c] = Set(c, Loaded)]
    /\ at' = [at EXCEPT ![c] = "loaded"]
    /\ overlap' = (overlap \/ Running # {})
    /\ UNCHANGED <<file, loop, seen, stopping, wish>>

\* SaveState begins: the file is opened and emptied.
Truncate(c) ==
    /\ at[c] = "loaded"
    /\ file' = Empty
    /\ at' = [at EXCEPT ![c] = "truncated"]
    /\ UNCHANGED <<given, read, overlap, loop, seen, stopping, wish>>

\* What the commands come to with one more.
Added(setting) ==
    [on |-> setting.on,
     interval |-> IF setting.interval = Same THEN wish.interval ELSE setting.interval]

Write(c) ==
    /\ at[c] = "truncated"
    /\ file' = Holds(read[c])
    /\ wish' = Added(given[c])
    /\ at' = [at EXCEPT ![c] = "idle"]
    /\ UNCHANGED <<given, read, overlap, loop, seen, stopping>>

\* The command fails or is killed: before it has touched the file, or when it has
\* emptied it, which turns anchoring off.
Fails(c) ==
    /\ c \in Running
    /\ wish' = IF at[c] = "truncated" THEN Default ELSE wish
    /\ at' = [at EXCEPT ![c] = "idle"]
    /\ UNCHANGED <<file, given, read, overlap, loop, seen, stopping>>

Command(c) ==
    \/ \E interval \in Intervals \cup {Same} : Load(c, TRUE, interval)
    \/ Load(c, FALSE, Same)
    \/ Truncate(c) \/ Write(c) \/ Fails(c)

-----------------------------------------------------------------------------
(* The loop *)

\* The loop reads the interval and begins to wait.
ReadInterval ==
    /\ loop = "load"
    /\ seen' = Loaded
    /\ loop' = IF stopping THEN "waiting to stop" ELSE "wait"
    /\ UNCHANGED <<file, commands, stopping, wish>>

\* The interval is over.  A wait that began when the gateway was already stopping is
\* over at once unless the interval is no time at all: then either may be noticed.
TimeIsUp ==
    /\ \/ loop = "wait"
       \/ loop = "waiting to stop" /\ seen.interval \in Zero
    /\ loop' = "check"
    /\ UNCHANGED <<file, commands, seen, stopping, wish>>

\* Faulty: the stop is looked for only while the loop was not yet to stop.
LeaveEarly ==
    /\ stopping /\ loop = "wait"
    /\ loop' = "ended"
    /\ UNCHANGED <<file, commands, seen, stopping, wish>>

\* The loop notices that the gateway stops.
Leave ==
    /\ stopping /\ loop \in {"wait", "waiting to stop"}
    /\ loop' = "ended"
    /\ UNCHANGED <<file, commands, seen, stopping, wish>>

\* Faulty: a loop that finds the switch off returns.
CheckOnce ==
    /\ loop = "check"
    /\ loop' = IF Loaded.on THEN "anchor" ELSE "ended"
    /\ UNCHANGED <<file, commands, seen, stopping, wish>>

\* Faulty: the switch is the one that was read with the interval.
CheckStale ==
    /\ loop = "check"
    /\ loop' = IF seen.on THEN "anchor" ELSE "load"
    /\ UNCHANGED <<file, commands, seen, stopping, wish>>

Check ==
    /\ loop = "check"
    /\ loop' = IF Loaded.on THEN "anchor" ELSE "load"
    /\ UNCHANGED <<file, commands, seen, stopping, wish>>

\* An anchoring ends or fails within its 60 seconds; either way the loop goes on.
Anchored ==
    /\ loop = "anchor"
    /\ loop' = "load"
    /\ UNCHANGED <<file, commands, seen, stopping, wish>>

Stop ==
    /\ ~stopping
    /\ stopping' = TRUE
    /\ UNCHANGED <<file, commands, loop, seen, wish>>

Next ==
    \/ \E c \in Commands : Command(c)
    \/ ReadInterval \/ TimeIsUp \/ Leave \/ Check \/ Anchored
    \/ Stop

\* Time passes and the loop runs; where both can be noticed, select picks one at
\* random, so the stop is not passed over for ever.
Fairness ==
    /\ WF_vars(ReadInterval) /\ WF_vars(TimeIsUp) /\ WF_vars(Check) /\ WF_vars(Anchored)
    /\ SF_vars(Leave)

Spec == Init /\ [][Next]_vars /\ Fairness

-----------------------------------------------------------------------------
(* Properties *)

\* As long as commands come one at a time, each takes effect on what the last one
\* left, and the file reads as what they come to: an off between two ons keeps the
\* interval, and a command that fails half-way leaves the defaults, never a mixture.
SettingKept == ~overlap /\ Running = {} => Loaded = wish

\* Once off is what the commands come to, also while the loop is in the middle of a
\* wait or another command is at work, no anchoring begins until one has switched it on.
OffStaysOff ==
    [][ loop = "check" /\ loop' = "anchor" /\ ~overlap => wish.on ]_vars

\* Anchoring that is on goes on: as long as no command runs and the gateway is not
\* told to stop, the loop comes to an anchoring again and again, whatever was
\* switched before, and whatever interval it is waiting for.
Settled == ~overlap /\ Running = {} /\ wish.on /\ ~stopping
AnchorsWhileOn == Settled /\ loop # "anchor" ~> ~Settled \/ loop = "anchor"

\* A loop that is told to stop ends, also one whose interval is no time at all.
LoopEnds == stopping ~> loop = "ended"

=============================================================================
