------------------------- MODULE AnchorSwitchProofs -------------------------
(***************************************************************************)
(* Proofs that the switch of anchoring is what the commands come to, for   *)
(* any number of commands and any intervals.                               *)
(***************************************************************************)
EXTENDS AnchorSwitch, TLAPS

\* Where the commands are, what they set and what they have read keep their shape.
AtOK ==
    /\ at \in [Commands -> {"idle", "loaded", "truncated"}]
    /\ given \in [Commands -> [on : BOOLEAN, interval : Intervals \cup {Same}]]
    /\ read = [c \in Commands |-> read[c]]

\* Without two commands at once there is at most one; until it empties the file the
\* file reads as what the commands come to, and from then on it is empty.
SwitchInv ==
    /\ AtOK
    /\ ~overlap =>
          /\ \A c, d \in Running : c = d
          /\ (\A c \in Running : at[c] # "truncated") => Loaded = wish
          /\ \A c \in Running : read[c] = Added(given[c])
          /\ \A c \in Running : at[c] = "truncated" => file = Empty

\* A gateway finds any file, and no command at work.
LEMMA SwitchInit == Init => SwitchInv
BY SwitchAssumption DEF Init, SwitchInv, AtOK, Running, Loaded, Default

\* A command that comes alone reads what the commands so far come to.
LEMMA LoadKeeps ==
    ASSUME SwitchInv, NEW c \in Commands, NEW on \in BOOLEAN,
           NEW interval \in Intervals \cup {Same}, Load(c, on, interval)
    PROVE  SwitchInv'
<1>1. Running' = Running \cup {c}
  BY DEF Load, Running, SwitchInv, AtOK
<1>2. Loaded' = Loaded /\ file' = file /\ wish' = wish
  BY DEF Load, Loaded
<1>3. AtOK'
  BY DEF Load, SwitchInv, AtOK
<1>4. at'[c] = "loaded" /\ given'[c] = [on |-> on, interval |-> interval]
      /\ read'[c] = Set(c, Loaded)
  BY DEF Load, SwitchInv, AtOK
<1>5. ASSUME ~overlap'
      PROVE  Running' = {c} /\ Loaded = wish
  BY <1>5, <1>1 DEF Load, SwitchInv
<1>6. ASSUME ~overlap'
      PROVE  read'[c] = Added(given[c])'
  BY <1>6, <1>2, <1>4, <1>5 DEF Set, Added
<1> QED
  BY <1>2, <1>3, <1>4, <1>5, <1>6 DEF SwitchInv

\* Emptying the file leaves what the command has read.
LEMMA TruncateKeeps ==
    ASSUME SwitchInv, NEW c \in Commands, Truncate(c)
    PROVE  SwitchInv'
<1>1. Running' = Running /\ c \in Running
  BY DEF Truncate, Running, SwitchInv, AtOK
<1>2. AtOK'
  BY DEF Truncate, SwitchInv, AtOK
<1> QED
  BY <1>1, <1>2 DEF Truncate, SwitchInv, AtOK, Added

\* A command that writes, or fails, leaves the file as the commands come to.
LEMMA EndKeeps ==
    ASSUME SwitchInv, NEW c \in Commands, Write(c) \/ Fails(c)
    PROVE  SwitchInv'
<1>1. Running' = Running \ {c} /\ c \in Running
  BY DEF Write, Fails, Running, SwitchInv, AtOK
<1>2. AtOK' /\ overlap' = overlap
  BY DEF Write, Fails, SwitchInv, AtOK
<1>3. ~overlap => Running' = {}
  BY <1>1 DEF SwitchInv
<1>4. ~overlap => Loaded' = wish'
  <2>1. CASE Write(c)
    BY <2>1, <1>1 DEF Write, Loaded, Holds, SwitchInv, Added
  <2>2. CASE Fails(c) /\ at[c] = "truncated"
    BY <2>2, <1>1 DEF Fails, SwitchInv, Loaded, Empty
  <2>3. CASE Fails(c) /\ at[c] # "truncated"
    BY <2>3, <1>1 DEF Fails, SwitchInv, Loaded
  <2> QED
    BY <2>1, <2>2, <2>3
<1> QED
  BY <1>2, <1>3, <1>4 DEF SwitchInv

\* Every step keeps the invariant; the loop never touches the file.
LEMMA SwitchStep == SwitchInv /\ [Next]_vars => SwitchInv'
<1> SUFFICES ASSUME SwitchInv, [Next]_vars PROVE SwitchInv'
  OBVIOUS
<1>1. ASSUME NEW c \in Commands, Command(c) PROVE SwitchInv'
  BY <1>1, LoadKeeps, TruncateKeeps, EndKeeps DEF Command
<1>2. CASE ReadInterval \/ TimeIsUp \/ Leave \/ Check \/ Anchored \/ Stop \/ UNCHANGED vars
  <2>1. UNCHANGED <<file, commands, wish>>
    BY <1>2 DEF ReadInterval, TimeIsUp, Leave, Check, Anchored, Stop, vars, commands
  <2> QED
    BY <2>1 DEF SwitchInv, AtOK, Running, Loaded, Added, commands
<1> QED
  BY <1>1, <1>2 DEF Next

\* The invariant holds in every reachable state.
THEOREM SwitchInvariance == Spec => []SwitchInv
BY SwitchInit, SwitchStep, PTL DEF Spec

\* For any number of commands and any intervals: as long as no two commands run at once,
\* the file reads as what they come to, also after one failed half-way.
THEOREM SettingIsKept == Spec => []SettingKept
<1>1. SwitchInv => SettingKept
  BY DEF SwitchInv, SettingKept
<1> QED
  BY <1>1, SwitchInvariance, PTL

\* Likewise no anchoring begins while off is what the commands come to, although the
\* loop reads the file at any moment, also while it is empty.
THEOREM OffIsOff == Spec => OffStaysOff
<1>1. SwitchInv /\ [Next]_vars => [loop = "check" /\ loop' = "anchor" /\ ~overlap => wish.on]_vars
  <2> SUFFICES ASSUME SwitchInv, Next, loop = "check", loop' = "anchor", ~overlap
               PROVE  wish.on
    BY DEF vars
  <2>1. Loaded.on
    BY DEF Next, Command, Load, Truncate, Write, Fails, ReadInterval, TimeIsUp, Leave, Check,
           Anchored, Stop, commands
  <2>2. \A c \in Running : at[c] # "truncated"
    BY <2>1 DEF SwitchInv, Loaded, Empty, Default
  <2> QED
    BY <2>1, <2>2 DEF SwitchInv
<1> QED
  BY <1>1, SwitchInvariance, PTL DEF Spec, OffStaysOff

=============================================================================
