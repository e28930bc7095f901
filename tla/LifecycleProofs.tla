-------------------------- MODULE LifecycleProofs ---------------------------
(***************************************************************************)
(* Theorems about Lifecycle, for every number of commands, of gateways, of *)
(* requests and of failures.                                               *)
(*                                                                         *)
(* That at most one gateway is on its way to its port is not inductive by  *)
(* itself: start creates a process before it records it, and serve looks   *)
(* at the pid file before it removes it.  Order says what is so in between *)
(* as long as commands have come one at a time and none gave up: a process *)
(* that serves is recorded or about to be recorded by the one command that *)
(* runs, and a command that is about to create a process, or to remove the *)
(* pid file, does so with no process serving.                              *)
(***************************************************************************)
EXTENDS Lifecycle, TLAPS

\* p has been created and has not let go of the port and the pid file.
Serving(p) == Alive(p) /\ phase[p] # "leaving"

Calm == trouble \cap {"overlap", "gave up", "no pid"} = {}

Recording(p) == \E c \in Commands : at[c] = "record" /\ aim[c] = p

OneCommand == \A c, d \in Active : c = d

Recorded == \A p \in Gateways : Serving(p) => pidfile = p \/ Recording(p)

NobodyServes ==
    \A c \in Commands : at[c] \in {"spawn", "clear"} => \A p \in Gateways : ~Serving(p)

OnlyTheNew ==
    \A c \in Commands : at[c] = "record" =>
        /\ aim[c] \in Gateways /\ phase[aim[c]] # "none"
        /\ pidfile # aim[c]
        /\ \A p \in Gateways : Serving(p) => p = aim[c]

OwnPidFile == \A p \in Gateways : phase[p] = "unrecording" => pidfile = p

PidWasCreated == pidfile # NoPid => phase[pidfile] # "none"

InOrder == OneCommand /\ Recorded /\ NobodyServes /\ OnlyTheNew /\ OwnPidFile /\ PidWasCreated

Order == Calm => InOrder

\* Only a gateway that has its files open has requests.
BoundHasFiles ==
    \A p \in bound : phase[p] \in {"listening", "ending", "unrecording", "leaving"}

\* A gateway that has read a file, and has not begun to leave, knows all of it.
Knowing ==
    \A p \in Gateways :
        /\ phase[p] \in {"vault open", "open", "listening", "ending", "unrecording"} =>
               vaultSeen[p] = vault
        /\ phase[p] \in {"open", "listening", "ending", "unrecording"} => logSeen[p] = Len(log)

Files == trouble = {} => ChainWhole /\ vault = Len(log) /\ Knowing

LInv == TypeOK /\ Order /\ BoundHasFiles /\ Files

-----------------------------------------------------------------------------
(* Types *)

LEMMA InitTypeOK == Init => TypeOK
  BY LifecycleAssumption DEF Init, TypeOK, Gateways, Commands, NoPid, Alive

Places == {"idle", "start", "spawn", "record", "stop", "signal", "wait", "clear", "done"}

Phases == {"none", "spawned", "vault open", "open", "listening", "ending", "unrecording",
           "leaving", "exited"}

CommandsTyped ==
    /\ op \in [Commands -> {"none", "start", "stop", "restart"}]
    /\ at \in [Commands -> Places]
    /\ aim \in [Commands -> Gateways \cup {NoPid}]
    /\ \A c \in Commands : at[c] \in {"record", "signal"} => aim[c] # NoPid

GatewaysTyped ==
    /\ phase \in [Gateways -> Phases]
    /\ signalled \subseteq Gateways /\ bound \subseteq Gateways
    /\ \A p \in signalled \cup bound : Alive(p)

LogTyped == log \in Seq(Nat \ {0})

PidsTyped == pidfile \in Gateways \cup {NoPid} /\ port \in Gateways \cup {NoPid}

CountsTyped ==
    /\ vaultSeen \in [Gateways -> Nat] /\ logSeen \in [Gateways -> Nat]
    /\ vault \in Nat
    /\ failures \in 0..MaxFailures
    /\ trouble \subseteq {"overlap", "gave up", "no pid", "late"}

LEMMA TypeParts ==
  /\ TypeOK => CommandsTyped /\ GatewaysTyped /\ LogTyped /\ PidsTyped /\ CountsTyped
  /\ CommandsTyped' /\ GatewaysTyped' /\ LogTyped' /\ PidsTyped' /\ CountsTyped' => TypeOK'
  BY DEF TypeOK, CommandsTyped, GatewaysTyped, LogTyped, PidsTyped, CountsTyped, Places, Phases

LEMMA StepTyped ==
  ASSUME CommandsTyped, NEW c \in Commands, NEW next \in Places,
         NEW pid \in Gateways \cup {NoPid}, GoWith(c, next, pid),
         next \in {"record", "signal"} => pid # NoPid
  PROVE  CommandsTyped'
  BY DEF CommandsTyped, GoWith, Places

LEMMA EnterTyped ==
  ASSUME GatewaysTyped, NEW p \in Gateways, NEW next \in Phases \ {"none", "exited"},
         Enter(p, next), UNCHANGED signalled, bound' \subseteq bound \cup {p}
  PROVE  GatewaysTyped'
  BY DEF GatewaysTyped, Enter, Phases, Alive

LEMMA LeaveTyped ==
  ASSUME GatewaysTyped, CountsTyped, NEW p \in Gateways, Leave(p)
  PROVE  /\ GatewaysTyped'
         /\ vaultSeen' \in [Gateways -> Nat] /\ logSeen' \in [Gateways -> Nat]
  BY DEF GatewaysTyped, CountsTyped, Leave, Enter, Phases, Alive

LEMMA LastSeqTyped == LogTyped => LastSeq \in Nat
<1> SUFFICES ASSUME LogTyped, log # <<>>
             PROVE  log[Len(log)] \in Nat
  BY DEF LastSeq
<1> DEFINE S == Nat \ {0}
<1>1. log \in Seq(S)
  BY DEF LogTyped
<1>2. Len(log) \in 1..Len(log)
  BY <1>1
<1> HIDE DEF S
<1>3. log[Len(log)] \in S
  BY <1>1, <1>2
<1> QED
  BY <1>3 DEF S

LEMMA Counted ==
  /\ \A n \in 0..MaxFailures : n < MaxFailures => n + 1 \in 0..MaxFailures
  /\ \A n \in Nat : n + 1 \in Nat \ {0}
  BY LifecycleAssumption

\* What a step of a command, or of a gateway, leaves alone keeps its type.
LEMMA Untouched ==
  /\ CommandsTyped /\ UNCHANGED commands => CommandsTyped'
  /\ GatewaysTyped /\ UNCHANGED <<phase, signalled, bound>> => GatewaysTyped'
  /\ LogTyped /\ UNCHANGED log => LogTyped'
  /\ PidsTyped /\ UNCHANGED <<pidfile, port>> => PidsTyped'
  /\ CountsTyped /\ UNCHANGED <<vaultSeen, logSeen, vault, failures, trouble>> => CountsTyped'
  BY DEF commands, CommandsTyped, GatewaysTyped, LogTyped, PidsTyped, CountsTyped, Alive

LEMMA CommandTyped ==
  ASSUME TypeOK, NEW c \in Commands,
         \/ \E name \in {"start", "stop", "restart"} : Call(c, name)
         \/ Starting(c) \/ Stopping(c)
  PROVE  TypeOK'
<1> USE Untouched, StepTyped DEF Step, gateways, files
<1>0. CommandsTyped /\ GatewaysTyped /\ LogTyped /\ PidsTyped /\ CountsTyped
  BY TypeParts
<1>1. ASSUME NEW name \in {"start", "stop", "restart"}, Call(c, name)
      PROVE  TypeOK'
  <2>1. CommandsTyped'
    BY <1>0, <1>1 DEF Call, CommandsTyped, Places
  <2>2. CountsTyped'
    BY <1>0, <1>1 DEF Call, CountsTyped
  <2> QED
    BY <1>0, <1>1, <2>1, <2>2, TypeParts DEF Call
<1>2. CASE StartChecks(c)
  <2>1. CommandsTyped'
    BY <1>0, <1>2 DEF StartChecks, Places
  <2> QED
    BY <1>0, <1>2, <2>1, TypeParts DEF StartChecks
<1>3. ASSUME NEW p \in Gateways, Spawn(c, p)
      PROVE  TypeOK'
  <2>1. CommandsTyped'
    BY <1>0, <1>3 DEF Spawn, Places, Gateways, NoPid
  <2>2. GatewaysTyped'
    BY <1>0, <1>3, EnterTyped DEF Spawn, Phases
  <2> QED
    BY <1>0, <1>3, <2>1, <2>2, TypeParts DEF Spawn
<1>4. CASE WritePID(c)
  <2>1. CommandsTyped'
    BY <1>0, <1>4 DEF WritePID, Places
  <2>2. PidsTyped'
    BY <1>0, <1>4 DEF WritePID, PidsTyped, CommandsTyped
  <2> QED
    BY <1>0, <1>4, <2>1, <2>2, TypeParts DEF WritePID
<1>5. CASE WritePIDFails(c)
  <2>1. CommandsTyped'
    BY <1>0, <1>5 DEF WritePIDFails, Places
  <2>2. failures' \in 0..MaxFailures
    BY <1>0, <1>5, Counted DEF WritePIDFails, CountsTyped
  <2>3. CountsTyped'
    BY <1>0, <1>5, <2>2 DEF WritePIDFails, CountsTyped
  <2> QED
    BY <1>0, <1>5, <2>1, <2>3, TypeParts DEF WritePIDFails
<1>6. CASE StopChecks(c)
  <2>1. CommandsTyped'
    BY <1>0, <1>6 DEF StopChecks, Places, PidsTyped, Running
  <2> QED
    BY <1>0, <1>6, <2>1, TypeParts DEF StopChecks
<1>7. CASE Signal(c)
  <2>1. CommandsTyped'
    BY <1>0, <1>7 DEF Signal, AfterStop, Places
  <2>2. aim[c] \in Gateways
    BY <1>0, <1>7 DEF CommandsTyped, Signal
  <2>3. GatewaysTyped'
    BY <1>0, <1>7, <2>2 DEF Signal, GatewaysTyped, Alive
  <2> QED
    BY <1>0, <1>7, <2>1, <2>3, TypeParts DEF Signal
<1>8. CASE StopSees(c)
  <2>1. CommandsTyped'
    BY <1>0, <1>8 DEF StopSees, Places
  <2> QED
    BY <1>0, <1>8, <2>1, TypeParts DEF StopSees
<1>9. CASE StopGivesUp(c)
  <2>1. CommandsTyped'
    BY <1>0, <1>9 DEF StopGivesUp, Places
  <2>2. CountsTyped'
    BY <1>0, <1>9 DEF StopGivesUp, CountsTyped
  <2> QED
    BY <1>0, <1>9, <2>1, <2>2, TypeParts DEF StopGivesUp
<1>10. CASE RemovePID(c)
  <2>1. CommandsTyped'
    BY <1>0, <1>10 DEF RemovePID, AfterStop, Places
  <2>2. PidsTyped'
    BY <1>0, <1>10 DEF RemovePID, PidsTyped
  <2> QED
    BY <1>0, <1>10, <2>1, <2>2, TypeParts DEF RemovePID
<1>11. CASE SpawnFails(c)
  <2>1. CommandsTyped'
    BY <1>0, <1>11 DEF SpawnFails, Places
  <2>2. failures' \in 0..MaxFailures
    BY <1>0, <1>11, Counted DEF SpawnFails, CountsTyped
  <2>3. CountsTyped'
    BY <1>0, <1>11, <2>2 DEF SpawnFails, CountsTyped
  <2> QED
    BY <1>0, <1>11, <2>1, <2>3, TypeParts DEF SpawnFails
<1> QED
  BY <1>1, <1>2, <1>3, <1>4, <1>5, <1>6, <1>7, <1>8, <1>9, <1>10, <1>11 DEF Starting, Stopping

LEMMA GatewayTyped ==
  ASSUME TypeOK, NEW p \in Gateways,
         Opening(p) \/ HandleRequest(p) \/ Ending(p) \/ Die(p)
  PROVE  TypeOK'
<1> USE Untouched DEF commands, gateways
<1>0. CommandsTyped /\ GatewaysTyped /\ LogTyped /\ PidsTyped /\ CountsTyped
  BY TypeParts
<1>1. CASE OpenVault(p)
  <2>1. GatewaysTyped'
    BY <1>0, <1>1, EnterTyped DEF OpenVault, Phases
  <2>2. CountsTyped'
    BY <1>0, <1>1 DEF OpenVault, CountsTyped
  <2> QED
    BY <1>0, <1>1, <2>1, <2>2, TypeParts DEF OpenVault
<1>2. CASE OpenLog(p)
  <2>1. GatewaysTyped'
    BY <1>0, <1>2, EnterTyped DEF OpenLog, Phases
  <2>2. CountsTyped'
    BY <1>0, <1>2, LastSeqTyped DEF OpenLog, CountsTyped
  <2> QED
    BY <1>0, <1>2, <2>1, <2>2, TypeParts DEF OpenLog
<1>3. CASE Listen(p)
  <2>1. GatewaysTyped'
    BY <1>0, <1>3, EnterTyped DEF Listen, Phases
  <2>2. PidsTyped'
    BY <1>0, <1>3 DEF Listen, PidsTyped
  <2> QED
    BY <1>0, <1>3, <2>1, <2>2, TypeParts DEF Listen, files
<1>4. CASE HandleRequest(p)
  <2>1. LogTyped'
    <3>1. logSeen[p] + 1 \in Nat \ {0}
      BY <1>0, Counted DEF CountsTyped
    <3> QED
      BY <1>0, <1>4, <3>1 DEF HandleRequest, LogTyped
  <2>2. vaultSeen' \in [Gateways -> Nat] /\ logSeen' \in [Gateways -> Nat] /\ vault' \in Nat
    BY <1>0, <1>4, Counted DEF HandleRequest, CountsTyped
  <2>3. CountsTyped'
    BY <1>0, <1>4, <2>2 DEF HandleRequest, CountsTyped
  <2> QED
    BY <1>0, <1>4, <2>1, <2>3, TypeParts DEF HandleRequest
<1>5. CASE Shutdown(p)
  <2>1. GatewaysTyped'
    BY <1>0, <1>5, EnterTyped DEF Shutdown, Phases
  <2>2. PidsTyped'
    BY <1>0, <1>5 DEF Shutdown, PidsTyped
  <2> QED
    BY <1>0, <1>5, <2>1, <2>2, TypeParts DEF Shutdown, files
<1>6. CASE Terminated(p)
  <2>1. GatewaysTyped' /\ vaultSeen' \in [Gateways -> Nat] /\ logSeen' \in [Gateways -> Nat]
    BY <1>0, <1>6, EnterTyped, LeaveTyped DEF Terminated, Phases, CountsTyped
  <2>2. CountsTyped'
    BY <1>0, <1>6, <2>1 DEF Terminated, CountsTyped
  <2> QED
    BY <1>0, <1>6, <2>1, <2>2, TypeParts DEF Terminated
<1>7. CASE ReadPID(p)
  <2>1. GatewaysTyped'
    BY <1>0, <1>7, EnterTyped DEF ReadPID, Phases
  <2> QED
    BY <1>0, <1>7, <2>1, TypeParts DEF ReadPID, files
<1>8. CASE Unrecord(p)
  <2>1. GatewaysTyped'
    BY <1>0, <1>8, EnterTyped DEF Unrecord, Phases
  <2>2. PidsTyped'
    BY <1>0, <1>8 DEF Unrecord, PidsTyped
  <2> QED
    BY <1>0, <1>8, <2>1, <2>2, TypeParts DEF Unrecord, files
<1>9. CASE Exit(p) \/ Die(p)
  <2>1. GatewaysTyped' /\ vaultSeen' \in [Gateways -> Nat] /\ logSeen' \in [Gateways -> Nat]
    BY <1>0, <1>9, LeaveTyped DEF Exit, Die
  <2>2. failures' \in 0..MaxFailures
    BY <1>0, <1>9, Counted DEF Exit, Die, CountsTyped
  <2>3. CountsTyped'
    BY <1>0, <1>9, <2>1, <2>2 DEF Exit, Die, CountsTyped
  <2>4. PidsTyped'
    BY <1>0, <1>9 DEF Exit, Die, PidsTyped
  <2> QED
    BY <1>0, <1>9, <2>1, <2>3, <2>4, TypeParts DEF Exit, Die
<1> QED
  BY <1>1, <1>2, <1>3, <1>4, <1>5, <1>6, <1>7, <1>8, <1>9 DEF Opening, Ending

LEMMA NextTyped == TypeOK /\ [Next]_vars => TypeOK'
<1>1. TypeOK /\ UNCHANGED vars => TypeOK'
  BY Untouched, TypeParts DEF vars, commands
<1> QED
  BY <1>1, CommandTyped, GatewayTyped DEF Next

THEOREM TypesHold == Spec => []TypeOK
  BY InitTypeOK, NextTyped, PTL DEF Spec

-----------------------------------------------------------------------------
(* One gateway after the other *)

LEMMA InitOrder == Init => Order
  BY DEF Init, Order, InOrder, OneCommand, Active, Recorded, Serving, Alive, NobodyServes,
         OnlyTheNew, OwnPidFile, PidWasCreated

LEMMA NoPidIsNone == NoPid \notin Gateways
  BY LifecycleAssumption DEF NoPid, Gateways

LEMMA OrderAmongCommands ==
  ASSUME TypeOK, InOrder, Calm', NEW c \in Commands,
         \/ \E name \in {"start", "stop", "restart"} : Call(c, name)
         \/ Starting(c) \/ Stopping(c)
  PROVE  InOrder'
<1> USE DEF InOrder, OneCommand, Active, Recorded, Recording, Serving, Alive, NobodyServes,
            OnlyTheNew, OwnPidFile, PidWasCreated, gateways, Step, GoWith
<1>0. CommandsTyped /\ GatewaysTyped
  BY TypeParts
<1> USE <1>0, NoPidIsNone DEF CommandsTyped, GatewaysTyped
<1>1. ASSUME NEW name \in {"start", "stop", "restart"}, Call(c, name)
      PROVE  InOrder'
  <2>1. Active = {}
    BY <1>1 DEF Call, Calm
  <2> QED
    BY <1>1, <2>1 DEF Call
<1>2. CASE StartChecks(c)
  BY <1>2 DEF StartChecks, Running
<1>3. ASSUME NEW p \in Gateways, Spawn(c, p)
      PROVE  InOrder'
  BY <1>3 DEF Spawn, Enter
<1>4. CASE WritePID(c)
  BY <1>4 DEF WritePID
<1>5. CASE WritePIDFails(c)
  BY <1>5 DEF WritePIDFails, Calm
<1>6. CASE StopChecks(c)
  BY <1>6 DEF StopChecks, Running
<1>7. CASE Signal(c)
  BY <1>7 DEF Signal, AfterStop
<1>8. CASE StopSees(c)
  BY <1>8 DEF StopSees, Running
<1>9. CASE StopGivesUp(c)
  BY <1>9 DEF StopGivesUp, Calm
<1>10. CASE RemovePID(c)
  BY <1>10 DEF RemovePID, AfterStop
<1>11. CASE SpawnFails(c)
  BY <1>11 DEF SpawnFails
<1> QED
  BY <1>1, <1>2, <1>3, <1>4, <1>5, <1>6, <1>7, <1>8, <1>9, <1>10, <1>11 DEF Starting, Stopping

\* A step of a gateway that begins nothing, and leaves the pid file alone.
LEMMA OrderKept ==
  ASSUME InOrder, CommandsTyped, PidsTyped, UNCHANGED <<at, aim, pidfile>>,
         \A q \in Gateways : Serving(q)' => Serving(q),
         \A q \in Gateways : phase'[q] = "none" => phase[q] = "none",
         \A q \in Gateways : phase'[q] = "unrecording" => phase[q] = "unrecording"
  PROVE  InOrder'
  BY DEF InOrder, OneCommand, Active, Recorded, Recording, NobodyServes, OnlyTheNew, OwnPidFile,
         PidWasCreated, PidsTyped

LEMMA OrderAmongGateways ==
  ASSUME TypeOK, InOrder, NEW p \in Gateways,
         Opening(p) \/ HandleRequest(p) \/ Ending(p) \/ Die(p)
  PROVE  InOrder'
<1>0. CommandsTyped /\ GatewaysTyped /\ PidsTyped
  BY TypeParts
<1> USE <1>0 DEF GatewaysTyped, commands, gateways, Serving, Alive, Enter
<1>1. CASE OpenVault(p) \/ OpenLog(p) \/ HandleRequest(p) \/ Shutdown(p)
  BY <1>1, OrderKept DEF OpenVault, OpenLog, HandleRequest, Shutdown
<1>2. CASE Listen(p)
  BY <1>2, OrderKept DEF Listen
<1>3. CASE Terminated(p)
  BY <1>3, OrderKept DEF Terminated, Leave
<1>4. CASE ReadPID(p)
  BY <1>4, NoPidIsNone
     DEF ReadPID, InOrder, OneCommand, Active, Recorded, Recording, NobodyServes, OnlyTheNew,
         OwnPidFile, PidWasCreated
<1>5. CASE Unrecord(p)
  BY <1>5, NoPidIsNone
     DEF Unrecord, InOrder, OneCommand, Active, Recorded, Recording, NobodyServes, OnlyTheNew,
         OwnPidFile, PidWasCreated
<1>6. CASE Exit(p) \/ Die(p)
  BY <1>6, OrderKept DEF Exit, Die, Leave
<1> QED
  BY <1>1, <1>2, <1>3, <1>4, <1>5, <1>6 DEF Opening, Ending

\* What has gone wrong stays gone wrong.
LEMMA TroubleStays ==
  ASSUME [Next]_vars
  PROVE  trouble \subseteq trouble'
<1>1. ASSUME NEW c \in Commands,
             \/ \E name \in {"start", "stop", "restart"} : Call(c, name)
             \/ Starting(c) \/ Stopping(c)
      PROVE  trouble \subseteq trouble'
  BY <1>1 DEF Call, Starting, StartChecks, Spawn, SpawnFails, WritePID, WritePIDFails, Stopping,
              StopChecks, Signal, StopSees, StopGivesUp, RemovePID
<1>2. ASSUME NEW p \in Gateways, Opening(p) \/ HandleRequest(p) \/ Ending(p) \/ Die(p)
      PROVE  trouble \subseteq trouble'
  BY <1>2 DEF Opening, OpenVault, OpenLog, Listen, HandleRequest, Ending, Shutdown, Terminated,
              ReadPID, Unrecord, Exit, Die
<1> QED
  BY <1>1, <1>2 DEF Next, vars

LEMMA NextOrder == TypeOK /\ Order /\ [Next]_vars => Order'
<1> SUFFICES ASSUME TypeOK, Order, [Next]_vars, Calm'
             PROVE  InOrder'
  BY DEF Order
<1>1. InOrder
  BY TroubleStays DEF Order, Calm
<1>2. CASE UNCHANGED vars
  BY <1>1, <1>2 DEF InOrder, vars, OneCommand, Active, Recorded, Recording, Serving, Alive,
                    NobodyServes, OnlyTheNew, OwnPidFile, PidWasCreated
<1> QED
  BY <1>1, <1>2, OrderAmongCommands, OrderAmongGateways DEF Next

LEMMA OneServes == InOrder => \A p, q \in Gateways : Serving(p) /\ Serving(q) => p = q
  BY DEF InOrder, Recorded, Recording, OnlyTheNew

-----------------------------------------------------------------------------
(* The files *)

LEMMA InitFiles == Init => BoundHasFiles /\ Files
  BY DEF Init, BoundHasFiles, Files, ChainWhole, Knowing

LEMMA NextBound ==
  ASSUME TypeOK, BoundHasFiles, [Next]_vars
  PROVE  BoundHasFiles'
<1>0. GatewaysTyped
  BY TypeParts
<1> USE <1>0 DEF GatewaysTyped, BoundHasFiles, gateways, Enter, Alive
<1>1. ASSUME NEW c \in Commands,
             \/ \E name \in {"start", "stop", "restart"} : Call(c, name)
             \/ Starting(c) \/ Stopping(c)
      PROVE  BoundHasFiles'
  BY <1>1 DEF Call, Starting, StartChecks, Spawn, SpawnFails, WritePID, WritePIDFails, Stopping,
              StopChecks, Signal, StopSees, StopGivesUp, RemovePID
<1>2. ASSUME NEW p \in Gateways, Opening(p) \/ HandleRequest(p)
      PROVE  BoundHasFiles'
  BY <1>2 DEF Opening, OpenVault, OpenLog, Listen, HandleRequest
<1>3. ASSUME NEW p \in Gateways, Ending(p) \/ Die(p)
      PROVE  BoundHasFiles'
  BY <1>3 DEF Ending, Shutdown, Terminated, ReadPID, Unrecord, Exit, Die, Leave
<1>4. CASE UNCHANGED vars
  BY <1>4 DEF vars
<1> QED
  BY <1>1, <1>2, <1>3, <1>4 DEF Next

FilesWhole == ChainWhole /\ vault = Len(log) /\ Knowing

\* A command opens no file and changes none; what it creates has read nothing.
LEMMA CommandsLeaveFiles ==
  ASSUME TypeOK, FilesWhole, NEW c \in Commands,
         \/ \E name \in {"start", "stop", "restart"} : Call(c, name)
         \/ Starting(c) \/ Stopping(c)
  PROVE  FilesWhole'
<1>0. GatewaysTyped
  BY TypeParts
<1>1. UNCHANGED files
  BY DEF Call, Starting, StartChecks, Spawn, SpawnFails, WritePID, WritePIDFails, Stopping,
         StopChecks, Signal, StopSees, StopGivesUp, RemovePID
<1>2. \A p \in Gateways : phase'[p] = phase[p] \/ phase'[p] = "spawned"
  BY <1>0 DEF Call, Starting, StartChecks, Spawn, SpawnFails, WritePID, WritePIDFails, Stopping,
         StopChecks, Signal, StopSees, StopGivesUp, RemovePID, gateways, Enter, GatewaysTyped
<1> QED
  BY <1>1, <1>2 DEF FilesWhole, ChainWhole, Knowing, files

\* The number of the last record of a whole log is how many there are.
LEMMA LastIsLength ==
  ASSUME LogTyped, ChainWhole
  PROVE  LastSeq = Len(log)
<1> DEFINE S == Nat \ {0}
<1>1. log \in Seq(S)
  BY DEF LogTyped
<1> HIDE DEF S
<1>2. Len(log) \in Nat /\ (log # <<>> => Len(log) \in 1..Len(log))
  BY <1>1
<1> QED
  BY <1>1, <1>2 DEF LastSeq, ChainWhole

\* A request of a gateway that has not begun to leave goes on where both files end,
\* and no other gateway is behind it.
LEMMA RequestKeepsFiles ==
  ASSUME TypeOK, InOrder, BoundHasFiles, FilesWhole, NEW p \in Gateways, HandleRequest(p),
         phase[p] # "leaving"
  PROVE  FilesWhole'
<1>0. GatewaysTyped /\ LogTyped /\ CountsTyped
  BY TypeParts
<1>1. Serving(p) /\ phase[p] \in {"listening", "ending", "unrecording"}
  BY DEF HandleRequest, BoundHasFiles, Serving
<1>2. vaultSeen[p] = vault /\ logSeen[p] = Len(log) /\ vault = Len(log)
  BY <1>1 DEF FilesWhole, Knowing
<1>3. Len(log) \in Nat
  BY <1>0 DEF LogTyped
<1>4. log' = Append(log, Len(log) + 1) /\ vault' = Len(log) + 1
  BY <1>2 DEF HandleRequest
<1>5. Len(log') = Len(log) + 1 /\ \A i \in 1..Len(log') : log'[i] = IF i = Len(log) + 1 THEN i ELSE log[i]
  BY <1>0, <1>3, <1>4 DEF LogTyped
<1>6. ChainWhole' /\ vault' = Len(log')
  BY <1>3, <1>4, <1>5 DEF FilesWhole, ChainWhole
<1>7. Knowing'
  <2> SUFFICES ASSUME NEW q \in Gateways
               PROVE  /\ phase[q] \in {"vault open", "open", "listening", "ending", "unrecording"} =>
                             vaultSeen'[q] = vault'
                      /\ phase[q] \in {"open", "listening", "ending", "unrecording"} =>
                             logSeen'[q] = Len(log')
    BY DEF Knowing, HandleRequest, gateways
  <2>1. CASE q = p
    BY <1>0, <1>2, <1>4, <1>5, <2>1 DEF HandleRequest, CountsTyped
  <2>2. CASE q # p
    BY <1>1, <2>2, OneServes DEF Serving, Alive
  <2> QED
    BY <2>1, <2>2
<1> QED
  BY <1>6, <1>7 DEF FilesWhole

LEMMA GatewaysLeaveFiles ==
  ASSUME TypeOK, FilesWhole, NEW p \in Gateways, Opening(p) \/ Ending(p) \/ Die(p)
  PROVE  FilesWhole'
<1>0. GatewaysTyped /\ LogTyped /\ CountsTyped
  BY TypeParts
<1> USE <1>0 DEF GatewaysTyped, CountsTyped, FilesWhole, ChainWhole, Knowing, Enter, files
<1>1. CASE OpenVault(p)
  BY <1>1 DEF OpenVault
<1>2. CASE OpenLog(p)
  BY <1>2, LastIsLength DEF OpenLog
<1>3. CASE Listen(p)
  BY <1>3 DEF Listen
<1>4. CASE Shutdown(p) \/ ReadPID(p) \/ Unrecord(p)
  BY <1>4 DEF Shutdown, ReadPID, Unrecord
<1>5. CASE Terminated(p)
  BY <1>5 DEF Terminated, Leave
<1>6. CASE Exit(p) \/ Die(p)
  BY <1>6 DEF Exit, Die, Leave
<1> QED
  BY <1>1, <1>2, <1>3, <1>4, <1>5, <1>6 DEF Opening, Ending

LEMMA NextFiles == TypeOK /\ Order /\ BoundHasFiles /\ Files /\ [Next]_vars => Files'
<1> SUFFICES ASSUME TypeOK, Order, BoundHasFiles, Files, [Next]_vars, trouble' = {}
             PROVE  FilesWhole'
  BY DEF Files, FilesWhole
<1>1. trouble = {} /\ FilesWhole
  BY TroubleStays DEF Files, FilesWhole
<1>2. InOrder
  BY <1>1 DEF Order, Calm
<1>3. ASSUME NEW p \in Gateways, HandleRequest(p)
      PROVE  phase[p] # "leaving"
  BY <1>3 DEF HandleRequest
<1>4. CASE UNCHANGED vars
  BY <1>1, <1>4 DEF vars, FilesWhole, ChainWhole, Knowing
<1> QED
  BY <1>1, <1>2, <1>3, <1>4, CommandsLeaveFiles, RequestKeepsFiles, GatewaysLeaveFiles DEF Next

-----------------------------------------------------------------------------
(* What the commands and gateways guarantee *)

\* The invariant holds in every reachable state, for every number of commands,
\* gateways, requests and failures, also when commands run at once.
THEOREM LifecycleInvariance == Spec => []LInv
<1>1. Init => LInv
  BY InitTypeOK, InitOrder, InitFiles DEF LInv
<1>2. LInv /\ [Next]_vars => LInv'
  BY NextTyped, NextOrder, NextBound, NextFiles DEF LInv
<1> QED
  BY <1>1, <1>2, PTL DEF Spec

\* A gateway that listens while no command runs is the recorded one, unless commands
\* have overlapped, stop has given up, or the pid file could not be written.
THEOREM ListenerIsRecorded == Spec => []ServerIsRecorded
<1>1. LInv => ServerIsRecorded
  BY DEF LInv, Order, Calm, InOrder, Recorded, Recording, Serving, Alive, ServerIsRecorded, Active
<1> QED
  BY <1>1, LifecycleInvariance, PTL

\* Under the same conditions a second gateway is created only when the first has let
\* go of the port and the pid file.
THEOREM AtMostOneServes == Spec => []OneServer
<1>1. LInv => OneServer
  BY OneServes DEF LInv, Order, Calm, Serving, OneServer
<1> QED
  BY <1>1, LifecycleInvariance, PTL

\* Any number of starts, stops, restarts and crashes leave one chain and a whole vault,
\* unless one of those, or a request that ends after its gateway's pid file is gone.
THEOREM FilesSurviveRestarts == Spec => []RestartsKeepFiles
<1>1. LInv => RestartsKeepFiles
  BY DEF LInv, Files, RestartsKeepFiles
<1> QED
  BY <1>1, LifecycleInvariance, PTL

=============================================================================
