---------------------------- MODULE ControllerProofs ----------------------------
(***************************************************************************)
(* Proofs about the two controllers of controller.c, for every set of      *)
(* platforms and service times.  The countdowns of the cycle-stepped one   *)
(* record the busy-until schedule of ControllerRule, its tables are exact  *)
(* and it never meets its limit; the busy tables of the sample schedule    *)
(* remember just what that rule asks for, tile after tile.  Then about     *)
(* what else is placed in one pass: stages of a list schedule exclude each *)
(* other, for every set of commands and every rule for delays, and the     *)
(* loops of the command builder append the closed form of the stream.      *)
(***************************************************************************)
EXTENDS CycleController, SampleSchedule, CommandBuilder, IfcStagesProofs, FiniteSetTheorems

CONSTANTS Commands, DelayAllowed(_)

VARIABLE rows         \* of a list schedule

List == INSTANCE ListSchedule

-----------------------------------------------------------------------------
(* The inductive invariant, in named parts.                                *)

Compute(k) == commands[k].opcode = "READ_COMPUTE"

SameChannel(j, k) == ChannelOf(commands[j]) = ChannelOf(commands[k])
SamePlane(j, k)   == PlaneOf(commands[j]) = PlaneOf(commands[k])

(* What a busy resource serves is a command that wants it.                 *)
ServesItsOwn ==
  /\ \A r \in Channels : channel_active[r] # None =>
       ChannelOf(commands[channel_active[r]]) = r
  /\ \A r \in Planes : plane_active[r] # None => PlaneOf(commands[plane_active[r]]) = r

(* Commands enter their channel, and then their plane, in stream order.    *)
InOrder ==
  \A j, k \in Ids : j < k =>
    /\ SameChannel(j, k) /\ stage[k] # "QUEUED" => stage[j] \notin {"QUEUED", "CHANNEL"}
    /\ /\ SamePlane(j, k) /\ Compute(j) /\ Compute(k)
       /\ stage[k] \in {"ARRAY", "DONE"}
       => stage[j] = "DONE"

(* What is recorded of a command tells its stage.                          *)
RecordedByStage ==
  \A k \in Ids :
    /\ times[k].channel_start # -1 <=> stage[k] # "QUEUED"
    /\ times[k].channel_end # -1 <=> stage[k] \notin {"QUEUED", "CHANNEL"}
    /\ times[k].array_start # -1 <=> Compute(k) /\ stage[k] \in {"ARRAY", "DONE"}
    /\ times[k].array_end # -1 <=> Compute(k) /\ stage[k] = "DONE"
    /\ times[k].complete # -1 <=> stage[k] = "DONE"
    /\ stage[k] = "DONE" => times[k].complete = IF Compute(k) THEN times[k].array_end
                                                ELSE times[k].channel_end

(* The cycle up to which the channels have counted down: they are one pass *)
(* ahead of the planes.                                                    *)
ChannelNow == IF pc = "plane" THEN cycle + 1 ELSE cycle

(* The countdown of a command and the clock meet at the end of its service.*)
CountdownExact ==
  \A k \in Ids :
    /\ stage[k] = "CHANNEL" =>
         /\ remaining_cycles[k] >= 1
         /\ times[k].channel_start + ChannelTime(commands[k], timing)
              = ChannelNow + remaining_cycles[k]
    /\ stage[k] = "ARRAY" =>
         /\ remaining_cycles[k] >= 1
         /\ times[k].array_start + timing.array = cycle + remaining_cycles[k]
    /\ times[k].channel_end # -1 =>
         /\ times[k].channel_end = times[k].channel_start + ChannelTime(commands[k], timing)
         /\ times[k].channel_end <= ChannelNow
    /\ times[k].array_end # -1 =>
         /\ times[k].array_end = times[k].array_start + timing.array
         /\ times[k].array_end <= cycle

(* The ends that command k waits for at its channel, and at its plane.     *)
ChannelEnds(k) ==
  {0} \cup {times[j].channel_end : j \in {j \in 1..k - 1 : SameChannel(j, k)}}

ArrayEnds(k) ==
  {times[k].channel_end} \cup
    {times[j].array_end : j \in {j \in 1..k - 1 : Compute(j) /\ SamePlane(j, k)}}

(* A service started when the last of what it waits for ended.             *)
StartsAtLastEnd ==
  \A k \in Ids :
    /\ stage[k] # "QUEUED" =>
         /\ times[k].channel_start \in ChannelEnds(k)
         /\ \A e \in ChannelEnds(k) : e <= times[k].channel_start
    /\ Compute(k) /\ stage[k] \in {"ARRAY", "DONE"} =>
         /\ times[k].array_start \in ArrayEnds(k)
         /\ \A e \in ArrayEnds(k) : e <= times[k].array_start

(* A command that waits for a free resource waits since this very cycle,   *)
(* and not past the pass that gives the resource away.                     *)
NoCycleLost ==
  \A k \in Ids :
    /\ stage[k] = "QUEUED" =>
         \/ channel_active[ChannelOf(commands[k])] # None
         \/ pc \notin {"array", "channel"} /\ ChannelNow \in ChannelEnds(k)
    /\ stage[k] = "WAIT_ARRAY" =>
         \/ plane_active[PlaneOf(commands[k])] # None
         \/ pc # "channel" /\ ChannelNow \in ArrayEnds(k)

(* The longest a command can take on its channel and on its plane.         *)
ChannelMost == timing.read_compute + timing.read_slice
ArrayMost   == timing.array

(* No command ends later than if all were served one after the other.      *)
Bounded ==
  \A k \in Ids :
    /\ stage[k] # "QUEUED" => times[k].channel_start + ChannelMost <= ChannelMost * k
    /\ Compute(k) /\ stage[k] \in {"ARRAY", "DONE"} =>
         times[k].array_start + ArrayMost <= ChannelMost * k + ArrayMost * k

(* How the loop ends.                                                      *)
Verdict ==
  /\ pc # "guard"
  /\ pc = "ok" => done_count = Len(commands)

IInv ==
  /\ TypeOK /\ timing \in CycleTimings /\ Len(commands) <= IFC_SSDSIM_MAX_COMMANDS
  /\ OwnersExact /\ ServesItsOwn /\ InOrder /\ RecordedByStage
  /\ CountdownExact /\ StartsAtLastEnd /\ NoCycleLost /\ Bounded /\ Verdict

-----------------------------------------------------------------------------
(* Facts about the stream, the tables and the rows of the trace.           *)

Fields == {"channel_start", "channel_end", "array_start", "array_end", "complete"}

TraceRow == [Fields -> Nat \cup {-1}]

(* What the type invariant says of the commands and the clock.             *)
LEMMA IdFacts ==
  ASSUME TypeOK
  PROVE  /\ Len(commands) \in Nat /\ Ids = 1..Len(commands)
         /\ \A k \in Ids :
              /\ commands[k] \in Command /\ commands[k].arrival_cycle = 0
              /\ commands[k].opcode \in {"READ_COMPUTE", "READ_SLICE"}
              /\ ChannelOf(commands[k]) \in Channels /\ PlaneOf(commands[k]) \in Planes
<1>1. commands \in Seq(Command)
  BY DEF TypeOK
<1>2. \A c \in Command : c.arrival_cycle = 0 /\ c.opcode \in {"READ_COMPUTE", "READ_SLICE"}
  BY DEF Command
<1>3. Len(commands) \in Nat /\ Ids = 1..Len(commands) /\ \A k \in Ids : commands[k] \in Command
  <2> HIDE DEF Command
  <2> QED BY <1>1 DEF Ids
<1> QED BY <1>2, <1>3 DEF Channels, Planes

(* The service times of a command.                                         *)
LEMMA TimeFacts ==
  ASSUME TypeOK
  PROVE  /\ timing.array \in Nat \ {0} /\ ArrayMost = timing.array
         /\ ChannelMost \in Nat
         /\ \A k : /\ ChannelTime(commands[k], timing) \in Nat \ {0}
                   /\ ChannelTime(commands[k], timing) <= ChannelMost
<1>1. timing \in ServiceTimes
  BY DEF TypeOK
<1>2. /\ timing.array \in Nat \ {0} /\ timing.read_compute \in Nat \ {0}
      /\ timing.read_slice \in Nat \ {0}
  BY <1>1 DEF ServiceTimes
<1> QED BY <1>2 DEF ChannelMost, ArrayMost, ChannelTime

(* The rows of the trace and the clock.                                    *)
LEMMA RowFacts ==
  ASSUME TypeOK
  PROVE  /\ times \in [Ids -> TraceRow]
         /\ cycle \in Nat /\ ChannelNow \in Nat
         /\ \A k \in Ids :
              /\ times[k].channel_start \in Nat \cup {-1}
              /\ times[k].channel_end \in Nat \cup {-1}
              /\ times[k].array_start \in Nat \cup {-1}
              /\ times[k].array_end \in Nat \cup {-1}
              /\ times[k].complete \in Nat \cup {-1}
<1>1. DOMAIN Unset = Fields
  BY DEF Unset, Fields
<1>2. times \in [Ids -> TraceRow]
  BY <1>1 DEF TypeOK, TraceRow
<1>3. \A k \in Ids : times[k] \in TraceRow
  BY <1>2
<1>4. \A t \in TraceRow :
        /\ t.channel_start \in Nat \cup {-1} /\ t.channel_end \in Nat \cup {-1}
        /\ t.array_start \in Nat \cup {-1} /\ t.array_end \in Nat \cup {-1}
        /\ t.complete \in Nat \cup {-1}
  BY DEF TraceRow, Fields
<1>5. cycle \in Nat
  BY DEF TypeOK
<1>6. ChannelNow \in Nat
  BY <1>5 DEF ChannelNow
<1> QED BY <1>2, <1>3, <1>4, <1>5, <1>6

(* A plane belongs to one channel.                                         *)
LEMMA PlaneInChannel ==
  ASSUME NEW j, NEW k, SamePlane(j, k)
  PROVE  SameChannel(j, k)
BY DEF SamePlane, SameChannel, PlaneOf, ChannelOf

(* Who is served.                                                          *)
LEMMA ServedFacts ==
  ASSUME TypeOK, OwnersExact, ServesItsOwn
  PROVE  /\ Served(channel_active) = {k \in Ids : stage[k] = "CHANNEL"}
         /\ Served(plane_active) = {k \in Ids : stage[k] = "ARRAY"}
<1>1. /\ channel_active \in [Channels -> Ids \cup {None}]
      /\ plane_active \in [Planes -> Ids \cup {None}]
  BY DEF TypeOK
<1>2. \A k \in Ids :
        /\ stage[k] = "CHANNEL" <=> channel_active[ChannelOf(commands[k])] = k
        /\ stage[k] = "ARRAY" <=> plane_active[PlaneOf(commands[k])] = k
  BY DEF OwnersExact
<1>3. \A k \in Ids : k # None
  BY IdFacts DEF None
<1> QED BY <1>1, <1>2, <1>3, IdFacts DEF Served, ServesItsOwn

(* Among the commands that wait for a free resource one takes it, and it   *)
(* is the first of them.                                                   *)
LEMMA TakingFacts ==
  ASSUME TypeOK, NEW st, NEW active
  PROVE  /\ Taking(st, active) \subseteq Ids
         /\ \A k \in Taking(st, active) :
              stage[k] = st /\ active[Wanted(st, k)] = None
         /\ \A k, j \in Ids :
              k \in Taking(st, active) /\ stage[j] = st /\ Wanted(st, j) = Wanted(st, k)
                => k <= j
         /\ \A k \in Ids :
              stage[k] = st /\ active[Wanted(st, k)] = None
                => \E j \in Taking(st, active) : Wanted(st, j) = Wanted(st, k)
<1>1. Len(commands) \in Nat /\ Ids = 1..Len(commands)
  BY IdFacts
<1>2. ASSUME NEW k \in Ids, NEW j \in Ids, k \in Taking(st, active), stage[j] = st,
             Wanted(st, j) = Wanted(st, k)
      PROVE  k <= j
  <2>1. \A i \in 1..k - 1 : stage[i] = st => Wanted(st, i) # Wanted(st, k)
    BY <1>2 DEF Taking
  <2>2. j \notin 1..k - 1
    BY <1>2, <2>1
  <2> QED BY <1>1, <2>2
<1>3. ASSUME NEW k \in Ids, stage[k] = st, active[Wanted(st, k)] = None
      PROVE  \E j \in Taking(st, active) : Wanted(st, j) = Wanted(st, k)
  <2> DEFINE Rivals == {j \in Ids : stage[j] = st /\ Wanted(st, j) = Wanted(st, k)}
  <2>1. Rivals \in SUBSET Nat /\ Rivals # {}
    BY <1>1, <1>3
  <2>2. PICK j \in Rivals : \A i \in Rivals : j <= i
    <3> HIDE DEF Rivals
    <3> QED BY <2>1, LeastOf
  <2>3. j \in Ids /\ stage[j] = st /\ Wanted(st, j) = Wanted(st, k)
    BY <2>2
  <2>4. ASSUME NEW i \in 1..j - 1, stage[i] = st
        PROVE  Wanted(st, i) # Wanted(st, j)
    <3>1. i \in Ids /\ ~(j <= i)
      BY <1>1, <2>3
    <3> QED BY <2>2, <2>3, <2>4, <3>1
  <2>5. j \in Taking(st, active)
    BY <1>3, <2>3, <2>4 DEF Taking
  <2> QED BY <2>3, <2>5
<1> QED BY <1>2, <1>3 DEF Taking

(* The table after a pass that gives free resources away.                  *)
LEMMA TakenFacts ==
  ASSUME TypeOK, NEW st, NEW active, NEW taking, taking = Taking(st, active),
         \A k \in Ids : Wanted(st, k) \in DOMAIN active
  PROVE  LET after == Taken(st, active, taking)
         IN  /\ DOMAIN after = DOMAIN active
             /\ \A k \in taking : after[Wanted(st, k)] = k
             /\ \A r \in DOMAIN active :
                  \/ after[r] = active[r] /\ \A k \in taking : Wanted(st, k) # r
                  \/ after[r] \in taking /\ Wanted(st, after[r]) = r /\ active[r] = None
<1> DEFINE after == Taken(st, active, taking)
<1>1. \A k, j \in taking : Wanted(st, k) = Wanted(st, j) => k = j
  <2> SUFFICES ASSUME NEW k \in taking, NEW j \in taking, Wanted(st, k) = Wanted(st, j)
               PROVE  k = j
    OBVIOUS
  <2>1. k \in Ids /\ j \in Ids /\ k <= j /\ j <= k
    BY TakingFacts
  <2> QED BY <2>1, IdFacts
<1>2. \A r \in DOMAIN active :
        /\ (\A k \in taking : Wanted(st, k) # r) => after[r] = active[r]
        /\ \A k \in taking : Wanted(st, k) = r => after[r] = k
  BY <1>1 DEF Taken
<1>3. DOMAIN after = DOMAIN active
  BY DEF Taken
<1>4. \A k \in taking : k \in Ids /\ active[Wanted(st, k)] = None
  BY TakingFacts
<1> HIDE DEF after
<1>5. \A k \in taking : after[Wanted(st, k)] = k
  BY <1>2, <1>4
<1>6. ASSUME NEW r \in DOMAIN active
      PROVE  \/ after[r] = active[r] /\ \A k \in taking : Wanted(st, k) # r
             \/ after[r] \in taking /\ Wanted(st, after[r]) = r /\ active[r] = None
  <2>1. CASE \A k \in taking : Wanted(st, k) # r
    BY <1>2, <2>1
  <2>2. ASSUME NEW k \in taking, Wanted(st, k) = r
        PROVE  after[r] \in taking /\ Wanted(st, after[r]) = r /\ active[r] = None
    BY <1>2, <1>4, <2>2
  <2> QED BY <2>1, <2>2
<1> QED BY <1>3, <1>5, <1>6 DEF after

(* A multiple does not shrink with its factor.                             *)
LEMMA MoreMultiple ==
  ASSUME NEW m \in Nat, NEW j \in Nat, NEW k \in Nat, j <= k
  PROVE  m * j <= m * k
<1>1. m * j \in Nat /\ m * k \in Nat
  OBVIOUS
<1>2. CASE j < k
  BY <1>1, <1>2, NextMultiple
<1>3. CASE j = k
  BY <1>1, <1>3
<1> QED BY <1>2, <1>3

(* What a command waits for ends early enough for the bound.               *)
LEMMA EndBounded ==
  ASSUME TypeOK, RecordedByStage, CountdownExact, Bounded, NEW k \in Ids, NEW e \in Nat
  PROVE  /\ e \in ChannelEnds(k) => e + ChannelMost <= ChannelMost * k
         /\ /\ e \in ArrayEnds(k) /\ stage[k] = "WAIT_ARRAY"
            => e + ArrayMost <= ChannelMost * k + ArrayMost * k
<1>1. /\ ChannelMost \in Nat /\ ArrayMost \in Nat /\ k \in Nat \ {0}
      /\ \A j \in 1..k - 1 : j \in Ids /\ j \in Nat /\ j < k
  BY IdFacts, TimeFacts
<1>2. /\ ChannelMost <= ChannelMost * k /\ ArrayMost <= ArrayMost * k
  <2>1. ChannelMost * 0 = 0 /\ ArrayMost * 0 = 0
    BY <1>1
  <2>2. ChannelMost * 0 + ChannelMost <= ChannelMost * k
        /\ ArrayMost * 0 + ArrayMost <= ArrayMost * k
    BY <1>1, NextMultiple
  <2> QED BY <1>1, <2>1, <2>2
<1>3. ASSUME NEW j \in Ids, times[j].channel_end # -1
      PROVE  times[j].channel_end <= ChannelMost * j
  <2>1. /\ times[j].channel_end = times[j].channel_start + ChannelTime(commands[j], timing)
        /\ stage[j] # "QUEUED"
    BY <1>3 DEF CountdownExact, RecordedByStage
  <2>2. times[j].channel_start + ChannelMost <= ChannelMost * j
    BY <2>1 DEF Bounded
  <2>3. ChannelTime(commands[j], timing) \in Nat
        /\ ChannelTime(commands[j], timing) <= ChannelMost /\ ChannelMost * j \in Int
        /\ times[j].channel_start \in Int
    BY <1>1, IdFacts, TimeFacts, RowFacts
  <2> QED BY <1>1, <2>1, <2>2, <2>3
<1>4. ASSUME e \in ChannelEnds(k)
      PROVE  e + ChannelMost <= ChannelMost * k
  <2>1. CASE e = 0
    BY <1>1, <1>2, <2>1
  <2>2. ASSUME NEW j \in 1..k - 1, e = times[j].channel_end
        PROVE  e + ChannelMost <= ChannelMost * k
    <3>1. e <= ChannelMost * j
      BY <1>1, <1>3, <2>2
    <3>2. ChannelMost * j + ChannelMost <= ChannelMost * k
      BY <1>1, NextMultiple
    <3>3. ChannelMost * j \in Int /\ ChannelMost * k \in Int
      BY <1>1
    <3> QED BY <1>1, <3>1, <3>2, <3>3
  <2> QED BY <1>4, <2>1, <2>2 DEF ChannelEnds
<1>5. ASSUME e \in ArrayEnds(k), stage[k] = "WAIT_ARRAY"
      PROVE  e + ArrayMost <= ChannelMost * k + ArrayMost * k
  <2>1. ChannelMost * k \in Int /\ ArrayMost * k \in Int
    BY <1>1
  <2>2. CASE e = times[k].channel_end
    <3>1. e <= ChannelMost * k
      BY <1>3, <2>2
    <3> QED BY <1>1, <1>2, <2>1, <3>1
  <2>3. ASSUME NEW j \in 1..k - 1, e = times[j].array_end, Compute(j)
        PROVE  e + ArrayMost <= ChannelMost * k + ArrayMost * k
    <3>1. times[j].array_end # -1 /\ stage[j] = "DONE"
      BY <1>1, <2>3 DEF RecordedByStage
    <3>2. times[j].array_end = times[j].array_start + ArrayMost
      BY <1>1, <3>1 DEF CountdownExact, ArrayMost
    <3>3. times[j].array_start + ArrayMost <= ChannelMost * j + ArrayMost * j
      BY <1>1, <2>3, <3>1 DEF Bounded
    <3>4. /\ ArrayMost * j + ArrayMost <= ArrayMost * k
          /\ ChannelMost * j + ChannelMost <= ChannelMost * k
      BY <1>1, NextMultiple
    <3>5. ArrayMost * j \in Int /\ ChannelMost * j \in Int
      BY <1>1
    <3> QED BY <1>1, <2>1, <2>3, <3>2, <3>3, <3>4, <3>5
  <2> QED BY <1>5, <2>2, <2>3 DEF ArrayEnds
<1> QED BY <1>4, <1>5

-----------------------------------------------------------------------------
(* The invariant holds when the controller starts.                         *)
LEMMA InitIInv == Init => IInv
<1> SUFFICES ASSUME Init PROVE IInv
  OBVIOUS
<1>1. /\ commands \in Seq(Command) /\ Len(commands) <= IFC_SSDSIM_MAX_COMMANDS
      /\ pc \in {"issue", "unsupported"}
  <2>1. PICK p \in Platforms :
          IF PlatformSupported(p) /\ ~BuildFails(p)
          THEN commands = BuildCommands(p) /\ pc = "issue"
          ELSE commands = << >> /\ pc = "unsupported"
    BY DEF Init
  <2>2. p \in Platform
    BY PlatformsAssumption
  <2>3. CASE PlatformSupported(p) /\ ~BuildFails(p)
    <3>1. BuildCommands(p) \in Seq(Command) /\ Len(BuildCommands(p)) = CommandCount(p)
          /\ CommandCount(p) \in Nat
      BY <2>2, <2>3, BuildCommandsType
    <3> QED BY <2>1, <2>3, <3>1, LimitsAssumption DEF BuildFails
  <2>4. CASE ~(PlatformSupported(p) /\ ~BuildFails(p))
    <3>1. commands = << >> /\ pc = "unsupported"
      BY <2>1, <2>4
    <3>2. << >> \in Seq(Command) /\ Len(<< >>) = 0
      OBVIOUS
    <3> QED BY <3>1, <3>2, LimitsAssumption
  <2> QED BY <2>3, <2>4
<1>2. timing \in ServiceTimes /\ timing \in CycleTimings
  BY CycleControllerAssumption DEF Init
<1>3. /\ stage = [k \in Ids |-> "QUEUED"] /\ remaining_cycles = [k \in Ids |-> 0]
      /\ times = [k \in Ids |-> Unset]
      /\ channel_active = [r \in Channels |-> None] /\ plane_active = [r \in Planes |-> None]
      /\ done_count = 0 /\ cycle = 0
  BY DEF Init
<1>4. TypeOK
  <2>1. Unset \in [DOMAIN Unset -> Nat \cup {-1}]
    BY DEF Unset
  <2> QED BY <1>1, <1>2, <1>3, <2>1 DEF TypeOK
<1>5. \A k \in Ids : stage[k] = "QUEUED" /\ k \in Nat
  BY <1>3, <1>4, IdFacts
<1>6. \A k \in Ids : /\ times[k].channel_start = -1 /\ times[k].channel_end = -1
                     /\ times[k].array_start = -1 /\ times[k].array_end = -1
                     /\ times[k].complete = -1
  BY <1>3 DEF Unset
<1>7. OwnersExact
  <2>1. {k \in Ids : stage[k] = "DONE"} = {}
    BY <1>5
  <2>2. done_count = Cardinality({k \in Ids : stage[k] = "DONE"})
    BY <1>3, <2>1, FS_EmptySet
  <2>3. \A k \in Ids : /\ channel_active[ChannelOf(commands[k])] # k
                       /\ plane_active[PlaneOf(commands[k])] # k
    BY <1>3, <1>4, <1>5, IdFacts DEF None
  <2> QED BY <1>5, <2>2, <2>3 DEF OwnersExact
<1>8. ServesItsOwn /\ InOrder /\ RecordedByStage
  BY <1>3, <1>5, <1>6 DEF ServesItsOwn, InOrder, RecordedByStage
<1>9. CountdownExact /\ StartsAtLastEnd /\ Bounded
  BY <1>5, <1>6 DEF CountdownExact, StartsAtLastEnd, Bounded
<1>10. NoCycleLost
  BY <1>1, <1>3, <1>5 DEF NoCycleLost, ChannelNow, ChannelEnds
<1>11. Verdict
  BY <1>1 DEF Verdict
<1> QED BY <1>1, <1>2, <1>4, <1>7, <1>8, <1>9, <1>10, <1>11 DEF IInv

-----------------------------------------------------------------------------
(* The first pass: commands enter free channels.                           *)

(* What the pass does, command by command and channel by channel.          *)
LEMMA IssueFacts ==
  ASSUME IInv, IssuePass
  PROVE  \E taking \in SUBSET Ids :
           /\ \A k \in taking :
                /\ stage[k] = "QUEUED"
                /\ channel_active[ChannelOf(commands[k])] = None
                /\ channel_active'[ChannelOf(commands[k])] = k
                /\ \A j \in Ids : stage[j] = "QUEUED" /\ SameChannel(j, k) => k <= j
           /\ \A k \in Ids :
                stage[k] = "QUEUED" /\ channel_active[ChannelOf(commands[k])] = None
                  => \E j \in taking : SameChannel(j, k)
           /\ \A r \in Channels :
                \/ /\ channel_active'[r] = channel_active[r]
                   /\ \A k \in taking : ChannelOf(commands[k]) # r
                \/ /\ channel_active'[r] \in taking /\ channel_active[r] = None
                   /\ ChannelOf(commands[channel_active'[r]]) = r
           /\ \A k \in Ids :
                /\ stage'[k] = IF k \in taking THEN "CHANNEL" ELSE stage[k]
                /\ remaining_cycles'[k] = IF k \in taking
                                          THEN ChannelTime(commands[k], timing)
                                          ELSE remaining_cycles[k]
                /\ times'[k].channel_start = IF k \in taking THEN cycle
                                             ELSE times[k].channel_start
                /\ times'[k].channel_end = times[k].channel_end
                /\ times'[k].array_start = times[k].array_start
                /\ times'[k].array_end = times[k].array_end
                /\ times'[k].complete = times[k].complete
           /\ TypeOK'
<1> DEFINE taking == Taking("QUEUED", channel_active)
<1>1. TypeOK
  BY DEF IInv
<1>2. /\ taking \subseteq Ids
      /\ \A k \in taking :
           stage[k] = "QUEUED" /\ channel_active[Wanted("QUEUED", k)] = None
      /\ \A k, j \in Ids : k \in taking /\ stage[j] = "QUEUED"
                             /\ Wanted("QUEUED", j) = Wanted("QUEUED", k) => k <= j
      /\ \A k \in Ids : stage[k] = "QUEUED" /\ channel_active[Wanted("QUEUED", k)] = None
                          => \E j \in taking : Wanted("QUEUED", j) = Wanted("QUEUED", k)
  BY <1>1, TakingFacts
<1>3. \A k : Wanted("QUEUED", k) = ChannelOf(commands[k])
  BY DEF Wanted
<1>4. {k \in taking : commands[k].arrival_cycle <= cycle} = taking
  BY <1>1, <1>2, IdFacts, RowFacts
<1>5. /\ stage' = [k \in Ids |-> IF k \in taking THEN "CHANNEL" ELSE stage[k]]
      /\ remaining_cycles' =
           [k \in Ids |-> IF k \in taking THEN ChannelTime(commands[k], timing)
                                 ELSE remaining_cycles[k]]
      /\ times' = [k \in Ids |-> IF k \in taking
                                 THEN [times[k] EXCEPT !.channel_start = cycle]
                                 ELSE times[k]]
      /\ channel_active' = Taken("QUEUED", channel_active, taking)
      /\ pc' = "array"
      /\ UNCHANGED <<commands, timing, plane_active, done_count, cycle>>
  BY <1>4 DEF IssuePass
<1>6. channel_active \in [Channels -> Ids \cup {None}]
  BY <1>1 DEF TypeOK
<1>7. LET after == Taken("QUEUED", channel_active, taking)
      IN  /\ DOMAIN after = Channels
          /\ \A k \in taking : after[ChannelOf(commands[k])] = k
          /\ \A r \in Channels :
               \/ after[r] = channel_active[r] /\ \A k \in taking : ChannelOf(commands[k]) # r
               \/ /\ after[r] \in taking /\ ChannelOf(commands[after[r]]) = r
                  /\ channel_active[r] = None
  <2>1. \A k \in Ids : Wanted("QUEUED", k) \in DOMAIN channel_active
    BY <1>1, <1>3, <1>6, IdFacts
  <2>2. DOMAIN channel_active = Channels
    BY <1>6
  <2> HIDE DEF taking
  <2>3. taking = Taking("QUEUED", channel_active)
    BY DEF taking
  <2> QED BY <1>1, <1>3, <2>1, <2>2, <2>3, TakenFacts
<1> HIDE DEF taking
<1>8. /\ times \in [Ids -> TraceRow] /\ cycle \in Nat /\ cycle \in Nat \cup {-1}
  BY <1>1, RowFacts
<1>9. \A t \in TraceRow :
        LET u == [t EXCEPT !.channel_start = cycle]
        IN  /\ u \in TraceRow /\ u.channel_start = cycle /\ u.channel_end = t.channel_end
            /\ u.array_start = t.array_start /\ u.array_end = t.array_end
            /\ u.complete = t.complete
  BY <1>8 DEF TraceRow, Fields
<1>10. \A k \in Ids :
         /\ times'[k] \in TraceRow
         /\ times'[k].channel_start = IF k \in taking THEN cycle ELSE times[k].channel_start
         /\ times'[k].channel_end = times[k].channel_end
         /\ times'[k].array_start = times[k].array_start
         /\ times'[k].array_end = times[k].array_end
         /\ times'[k].complete = times[k].complete
  BY <1>5, <1>8, <1>9
<1>11. TypeOK'
  <2>1. times' \in [Ids -> TraceRow]
    BY <1>5, <1>10
  <2>2. TraceRow = [DOMAIN Unset -> Nat \cup {-1}]
    BY DEF TraceRow, Unset, Fields
  <2>3. Ids' = Ids /\ Channels' = Channels /\ Planes' = Planes
    BY <1>5 DEF Ids, Channels, Planes
  <2>4. stage' \in [Ids -> {"QUEUED", "CHANNEL", "WAIT_ARRAY", "ARRAY", "DONE"}]
    BY <1>1, <1>5 DEF TypeOK
  <2>5. remaining_cycles' \in [Ids -> Nat]
    BY <1>1, <1>5, TimeFacts DEF TypeOK
  <2>6. channel_active' \in [Channels -> Ids \cup {None}]
    <3>1. \A r \in Channels : channel_active'[r] \in Ids \cup {None}
      BY <1>2, <1>5, <1>6, <1>7
    <3>2. channel_active' = [r \in Channels |-> channel_active'[r]]
      BY <1>5, <1>6 DEF Taken
    <3> QED BY <3>1, <3>2
  <2> QED BY <1>1, <1>5, <2>1, <2>2, <2>3, <2>4, <2>5, <2>6 DEF TypeOK
<1>12. \A r \in Channels :
         \/ /\ channel_active'[r] = channel_active[r]
            /\ \A k \in taking : ChannelOf(commands[k]) # r
         \/ /\ channel_active'[r] \in taking /\ channel_active[r] = None
            /\ ChannelOf(commands[channel_active'[r]]) = r
  BY <1>5, <1>7
<1>13. \A k \in taking : /\ channel_active'[ChannelOf(commands[k])] = k
                         /\ channel_active[ChannelOf(commands[k])] = None
  BY <1>2, <1>3, <1>5, <1>7
<1>14. \A k \in Ids :
         /\ stage'[k] = IF k \in taking THEN "CHANNEL" ELSE stage[k]
         /\ remaining_cycles'[k] = IF k \in taking THEN ChannelTime(commands[k], timing)
                                   ELSE remaining_cycles[k]
  BY <1>5
<1>15. /\ \A k \in taking : \A j \in Ids : stage[j] = "QUEUED" /\ SameChannel(j, k) => k <= j
       /\ \A k \in Ids :
            stage[k] = "QUEUED" /\ channel_active[ChannelOf(commands[k])] = None
              => \E j \in taking : SameChannel(j, k)
  BY <1>2, <1>3 DEF SameChannel
<1>16. taking \in SUBSET Ids /\ \A k \in taking : stage[k] = "QUEUED"
  BY <1>2
<1> QED BY <1>10, <1>11, <1>12, <1>13, <1>14, <1>15, <1>16

(* The first pass keeps the invariant.                                     *)
LEMMA IssueKeeps ==
  ASSUME IInv, IssuePass
  PROVE  IInv'
<1>1. PICK taking \in SUBSET Ids :
        /\ \A k \in taking :
             /\ stage[k] = "QUEUED"
             /\ channel_active[ChannelOf(commands[k])] = None
             /\ channel_active'[ChannelOf(commands[k])] = k
             /\ \A j \in Ids : stage[j] = "QUEUED" /\ SameChannel(j, k) => k <= j
        /\ \A k \in Ids :
             stage[k] = "QUEUED" /\ channel_active[ChannelOf(commands[k])] = None
               => \E j \in taking : SameChannel(j, k)
        /\ \A r \in Channels :
             \/ /\ channel_active'[r] = channel_active[r]
                /\ \A k \in taking : ChannelOf(commands[k]) # r
             \/ /\ channel_active'[r] \in taking /\ channel_active[r] = None
                /\ ChannelOf(commands[channel_active'[r]]) = r
        /\ \A k \in Ids :
             /\ stage'[k] = IF k \in taking THEN "CHANNEL" ELSE stage[k]
             /\ remaining_cycles'[k] = IF k \in taking
                                       THEN ChannelTime(commands[k], timing)
                                       ELSE remaining_cycles[k]
             /\ times'[k].channel_start = IF k \in taking THEN cycle
                                          ELSE times[k].channel_start
             /\ times'[k].channel_end = times[k].channel_end
             /\ times'[k].array_start = times[k].array_start
             /\ times'[k].array_end = times[k].array_end
             /\ times'[k].complete = times[k].complete
        /\ TypeOK'
  BY IssueFacts
<1>2. /\ commands' = commands /\ timing' = timing /\ plane_active' = plane_active
      /\ done_count' = done_count /\ cycle' = cycle /\ pc = "issue" /\ pc' = "array"
      /\ Ids' = Ids /\ Channels' = Channels /\ Planes' = Planes
  BY DEF IssuePass, Ids, Channels, Planes
<1>3. TypeOK /\ \A k \in Ids : k \in Nat \ {0} /\ k # None
  BY IdFacts DEF IInv, None
<1>4. /\ ChannelNow = cycle /\ ChannelNow' = cycle
      /\ \A j, k : /\ SameChannel(j, k)' <=> SameChannel(j, k)
                   /\ SamePlane(j, k)' <=> SamePlane(j, k)
      /\ \A k : Compute(k)' <=> Compute(k)
  BY <1>2 DEF ChannelNow, SameChannel, SamePlane, Compute
<1>5. \A k \in Ids : ChannelEnds(k)' = ChannelEnds(k) /\ ArrayEnds(k)' = ArrayEnds(k)
  <2>1. \A k \in Ids : \A j \in 1..k - 1 : j \in Ids
    BY <1>3, IdFacts
  <2> QED BY <1>1, <1>4, <2>1 DEF ChannelEnds, ArrayEnds
<1>6. \A k \in taking : times[k].channel_start = -1
  BY <1>1 DEF IInv, RecordedByStage
<1>7. OwnersExact'
  <2>1. ASSUME NEW k \in Ids
        PROVE  /\ stage'[k] = "CHANNEL" <=> channel_active'[ChannelOf(commands[k])] = k
               /\ stage'[k] = "ARRAY" <=> plane_active[PlaneOf(commands[k])] = k
               /\ commands[k].opcode = "READ_SLICE" => stage'[k] \notin {"WAIT_ARRAY", "ARRAY"}
    <3>1. /\ stage[k] = "CHANNEL" <=> channel_active[ChannelOf(commands[k])] = k
          /\ stage[k] = "ARRAY" <=> plane_active[PlaneOf(commands[k])] = k
          /\ commands[k].opcode = "READ_SLICE" => stage[k] \notin {"WAIT_ARRAY", "ARRAY"}
      BY DEF IInv, OwnersExact
    <3>2. ChannelOf(commands[k]) \in Channels
      BY <1>3, IdFacts
    <3>3. CASE k \in taking
      BY <1>1, <3>1, <3>3
    <3>4. CASE k \notin taking
      BY <1>1, <1>3, <3>1, <3>2, <3>4
    <3> QED BY <3>3, <3>4
  <2>2. {k \in Ids : stage'[k] = "DONE"} = {k \in Ids : stage[k] = "DONE"}
    BY <1>1
  <2> QED BY <1>2, <2>1, <2>2 DEF IInv, OwnersExact
<1>8. ServesItsOwn'
  BY <1>1, <1>2 DEF IInv, ServesItsOwn
<1>9. InOrder'
  <2> SUFFICES ASSUME NEW j \in Ids, NEW k \in Ids, j < k
               PROVE  /\ SameChannel(j, k) /\ stage'[k] # "QUEUED"
                           => stage'[j] \notin {"QUEUED", "CHANNEL"}
                      /\ /\ SamePlane(j, k) /\ Compute(j) /\ Compute(k)
                         /\ stage'[k] \in {"ARRAY", "DONE"}
                         => stage'[j] = "DONE"
    BY <1>2, <1>4 DEF InOrder
  <2>1. /\ SameChannel(j, k) /\ stage[k] # "QUEUED" => stage[j] \notin {"QUEUED", "CHANNEL"}
        /\ /\ SamePlane(j, k) /\ Compute(j) /\ Compute(k)
           /\ stage[k] \in {"ARRAY", "DONE"}
           => stage[j] = "DONE"
    BY DEF IInv, InOrder
  <2>2. CASE k \notin taking
    BY <1>1, <2>1, <2>2
  <2>3. CASE k \in taking
    <3>1. SameChannel(j, k) => stage[j] \notin {"QUEUED", "CHANNEL"}
      <4> SUFFICES ASSUME SameChannel(j, k) PROVE stage[j] \notin {"QUEUED", "CHANNEL"}
        OBVIOUS
      <4>1. stage[j] # "QUEUED"
        BY <1>1, <1>3, <2>3
      <4>2. channel_active[ChannelOf(commands[j])] = None
        BY <1>1, <2>3 DEF SameChannel
      <4> QED BY <1>3, <4>1, <4>2 DEF IInv, OwnersExact
    <3> QED BY <1>1, <2>3, <3>1
  <2> QED BY <2>2, <2>3
<1>10. RecordedByStage'
  <2> SUFFICES ASSUME NEW k \in Ids
               PROVE  /\ times'[k].channel_start # -1 <=> stage'[k] # "QUEUED"
                      /\ times'[k].channel_end # -1 <=> stage'[k] \notin {"QUEUED", "CHANNEL"}
                      /\ times'[k].array_start # -1
                           <=> Compute(k) /\ stage'[k] \in {"ARRAY", "DONE"}
                      /\ times'[k].array_end # -1 <=> Compute(k) /\ stage'[k] = "DONE"
                      /\ times'[k].complete # -1 <=> stage'[k] = "DONE"
                      /\ stage'[k] = "DONE" =>
                           times'[k].complete = IF Compute(k) THEN times'[k].array_end
                                                ELSE times'[k].channel_end
    BY <1>2, <1>4 DEF RecordedByStage
  <2>1. cycle # -1
    BY <1>3, RowFacts
  <2> QED BY <1>1, <2>1 DEF IInv, RecordedByStage
<1>11. CountdownExact'
  <2> SUFFICES ASSUME NEW k \in Ids
               PROVE  /\ stage'[k] = "CHANNEL" =>
                           /\ remaining_cycles'[k] >= 1
                           /\ times'[k].channel_start + ChannelTime(commands[k], timing)
                                = cycle + remaining_cycles'[k]
                      /\ stage'[k] = "ARRAY" =>
                           /\ remaining_cycles'[k] >= 1
                           /\ times'[k].array_start + timing.array
                                = cycle + remaining_cycles'[k]
                      /\ times'[k].channel_end # -1 =>
                           /\ times'[k].channel_end
                                = times'[k].channel_start + ChannelTime(commands[k], timing)
                           /\ times'[k].channel_end <= cycle
                      /\ times'[k].array_end # -1 =>
                           /\ times'[k].array_end = times'[k].array_start + timing.array
                           /\ times'[k].array_end <= cycle
    BY <1>2, <1>4 DEF CountdownExact
  <2>1. ChannelTime(commands[k], timing) \in Nat \ {0}
    BY <1>3, TimeFacts
  <2>2. k \in taking => times[k].channel_end = -1 /\ times[k].array_end = -1
    BY <1>1 DEF IInv, RecordedByStage
  <2> QED BY <1>1, <1>4, <2>1, <2>2 DEF IInv, CountdownExact
<1>12. \A k \in taking : cycle \in ChannelEnds(k) /\ \A e \in ChannelEnds(k) : e <= cycle
  <2> SUFFICES ASSUME NEW k \in taking
               PROVE  cycle \in ChannelEnds(k) /\ \A e \in ChannelEnds(k) : e <= cycle
    OBVIOUS
  <2>1. cycle \in ChannelEnds(k)
    BY <1>1, <1>2, <1>4 DEF IInv, NoCycleLost
  <2>2. \A j \in Ids : times[j].channel_end <= cycle
    BY <1>3, <1>4, RowFacts DEF IInv, CountdownExact
  <2>3. cycle \in Nat /\ \A j \in 1..k - 1 : j \in Ids
    BY <1>3, IdFacts, RowFacts
  <2> QED BY <2>1, <2>2, <2>3 DEF ChannelEnds
<1>13. StartsAtLastEnd'
  <2> SUFFICES ASSUME NEW k \in Ids
               PROVE  /\ stage'[k] # "QUEUED" =>
                           /\ times'[k].channel_start \in ChannelEnds(k)
                           /\ \A e \in ChannelEnds(k) : e <= times'[k].channel_start
                      /\ Compute(k) /\ stage'[k] \in {"ARRAY", "DONE"} =>
                           /\ times'[k].array_start \in ArrayEnds(k)
                           /\ \A e \in ArrayEnds(k) : e <= times'[k].array_start
    BY <1>2, <1>4, <1>5 DEF StartsAtLastEnd
  <2> QED BY <1>1, <1>12 DEF IInv, StartsAtLastEnd
<1>14. NoCycleLost'
  <2> SUFFICES ASSUME NEW k \in Ids
               PROVE  /\ stage'[k] = "QUEUED" =>
                           channel_active'[ChannelOf(commands[k])] # None
                      /\ stage'[k] = "WAIT_ARRAY" =>
                           \/ plane_active[PlaneOf(commands[k])] # None
                           \/ cycle \in ArrayEnds(k)
    BY <1>2, <1>4, <1>5 DEF NoCycleLost
  <2>1. ASSUME stage'[k] = "QUEUED"
        PROVE  channel_active'[ChannelOf(commands[k])] # None
    <3>1. stage[k] = "QUEUED" /\ k \notin taking
      BY <1>1, <2>1
    <3>2. ChannelOf(commands[k]) \in Channels
      BY <1>3, IdFacts
    <3>3. CASE channel_active[ChannelOf(commands[k])] # None
      BY <1>1, <3>2, <3>3
    <3>4. CASE channel_active[ChannelOf(commands[k])] = None
      BY <1>1, <1>3, <3>1, <3>4 DEF SameChannel
    <3> QED BY <3>3, <3>4
  <2>2. stage'[k] = "WAIT_ARRAY" =>
          plane_active[PlaneOf(commands[k])] # None \/ cycle \in ArrayEnds(k)
    BY <1>1, <1>2, <1>4 DEF IInv, NoCycleLost
  <2> QED BY <2>1, <2>2
<1>15. Bounded'
  <2>1. ChannelMost' = ChannelMost /\ ArrayMost' = ArrayMost
    BY <1>2 DEF ChannelMost, ArrayMost
  <2> SUFFICES ASSUME NEW k \in Ids
               PROVE  /\ stage'[k] # "QUEUED" =>
                           times'[k].channel_start + ChannelMost <= ChannelMost * k
                      /\ Compute(k) /\ stage'[k] \in {"ARRAY", "DONE"} =>
                           times'[k].array_start + ArrayMost <= ChannelMost * k + ArrayMost * k
    BY <1>2, <1>4, <2>1 DEF Bounded
  <2>2. ASSUME k \in taking
        PROVE  cycle + ChannelMost <= ChannelMost * k
    <3>1. cycle \in Nat
      BY <1>3, RowFacts
    <3> QED BY <1>12, <2>2, <3>1, EndBounded DEF IInv
  <2> QED BY <1>1, <2>2 DEF IInv, Bounded
<1>16. Verdict'
  BY <1>2 DEF Verdict
<1>17. timing' \in CycleTimings /\ Len(commands') <= IFC_SSDSIM_MAX_COMMANDS
  BY <1>2 DEF IInv
<1> QED BY <1>1, <1>7, <1>8, <1>9, <1>10, <1>11, <1>13, <1>14, <1>15, <1>16, <1>17 DEF IInv

-----------------------------------------------------------------------------
(* The second pass: commands that wait for their plane take it.            *)

(* What the pass does, command by command and plane by plane.              *)
LEMMA ArrayFacts ==
  ASSUME IInv, ArrayPass
  PROVE  \E taking \in SUBSET Ids :
           /\ \A k \in taking :
                /\ stage[k] = "WAIT_ARRAY"
                /\ plane_active[PlaneOf(commands[k])] = None
                /\ plane_active'[PlaneOf(commands[k])] = k
                /\ \A j \in Ids : stage[j] = "WAIT_ARRAY" /\ SamePlane(j, k) => k <= j
           /\ \A k \in Ids :
                stage[k] = "WAIT_ARRAY" /\ plane_active[PlaneOf(commands[k])] = None
                  => \E j \in taking : SamePlane(j, k)
           /\ \A r \in Planes :
                \/ /\ plane_active'[r] = plane_active[r]
                   /\ \A k \in taking : PlaneOf(commands[k]) # r
                \/ /\ plane_active'[r] \in taking /\ plane_active[r] = None
                   /\ PlaneOf(commands[plane_active'[r]]) = r
           /\ \A k \in Ids :
                /\ stage'[k] = IF k \in taking THEN "ARRAY" ELSE stage[k]
                /\ remaining_cycles'[k] = IF k \in taking THEN timing.array
                                          ELSE remaining_cycles[k]
                /\ times'[k].channel_start = times[k].channel_start
                /\ times'[k].channel_end = times[k].channel_end
                /\ times'[k].array_start = IF k \in taking THEN cycle
                                           ELSE times[k].array_start
                /\ times'[k].array_end = times[k].array_end
                /\ times'[k].complete = times[k].complete
           /\ TypeOK'
<1> DEFINE taking == Taking("WAIT_ARRAY", plane_active)
<1>1. TypeOK
  BY DEF IInv
<1>2. /\ taking \subseteq Ids
      /\ \A k \in taking :
           stage[k] = "WAIT_ARRAY" /\ plane_active[Wanted("WAIT_ARRAY", k)] = None
      /\ \A k, j \in Ids : k \in taking /\ stage[j] = "WAIT_ARRAY"
                             /\ Wanted("WAIT_ARRAY", j) = Wanted("WAIT_ARRAY", k) => k <= j
      /\ \A k \in Ids :
           stage[k] = "WAIT_ARRAY" /\ plane_active[Wanted("WAIT_ARRAY", k)] = None
             => \E j \in taking : Wanted("WAIT_ARRAY", j) = Wanted("WAIT_ARRAY", k)
  BY <1>1, TakingFacts
<1>3. \A k : Wanted("WAIT_ARRAY", k) = PlaneOf(commands[k])
  BY DEF Wanted
<1>5. /\ stage' = [k \in Ids |-> IF k \in taking THEN "ARRAY" ELSE stage[k]]
      /\ remaining_cycles' =
           [k \in Ids |-> IF k \in taking THEN timing.array ELSE remaining_cycles[k]]
      /\ times' = [k \in Ids |-> IF k \in taking
                                 THEN [times[k] EXCEPT !.array_start = cycle]
                                 ELSE times[k]]
      /\ plane_active' = Taken("WAIT_ARRAY", plane_active, taking)
      /\ pc' = "channel"
      /\ UNCHANGED <<commands, timing, channel_active, done_count, cycle>>
  BY DEF ArrayPass
<1>6. plane_active \in [Planes -> Ids \cup {None}]
  BY <1>1 DEF TypeOK
<1>7. LET after == Taken("WAIT_ARRAY", plane_active, taking)
      IN  /\ DOMAIN after = Planes
          /\ \A k \in taking : after[PlaneOf(commands[k])] = k
          /\ \A r \in Planes :
               \/ after[r] = plane_active[r] /\ \A k \in taking : PlaneOf(commands[k]) # r
               \/ /\ after[r] \in taking /\ PlaneOf(commands[after[r]]) = r
                  /\ plane_active[r] = None
  <2>1. \A k \in Ids : Wanted("WAIT_ARRAY", k) \in DOMAIN plane_active
    BY <1>1, <1>3, <1>6, IdFacts
  <2>2. DOMAIN plane_active = Planes
    BY <1>6
  <2> HIDE DEF taking
  <2>3. taking = Taking("WAIT_ARRAY", plane_active)
    BY DEF taking
  <2> QED BY <1>1, <1>3, <2>1, <2>2, <2>3, TakenFacts
<1> HIDE DEF taking
<1>8. /\ times \in [Ids -> TraceRow] /\ cycle \in Nat /\ cycle \in Nat \cup {-1}
  BY <1>1, RowFacts
<1>9. \A t \in TraceRow :
        LET u == [t EXCEPT !.array_start = cycle]
        IN  /\ u \in TraceRow /\ u.array_start = cycle /\ u.channel_end = t.channel_end
            /\ u.channel_start = t.channel_start /\ u.array_end = t.array_end
            /\ u.complete = t.complete
  BY <1>8 DEF TraceRow, Fields
<1>10. \A k \in Ids :
         /\ times'[k] \in TraceRow
         /\ times'[k].channel_start = times[k].channel_start
         /\ times'[k].channel_end = times[k].channel_end
         /\ times'[k].array_start = IF k \in taking THEN cycle ELSE times[k].array_start
         /\ times'[k].array_end = times[k].array_end
         /\ times'[k].complete = times[k].complete
  BY <1>5, <1>8, <1>9
<1>11. TypeOK'
  <2>1. times' \in [Ids -> TraceRow]
    BY <1>5, <1>10
  <2>2. TraceRow = [DOMAIN Unset -> Nat \cup {-1}]
    BY DEF TraceRow, Unset, Fields
  <2>3. Ids' = Ids /\ Channels' = Channels /\ Planes' = Planes
    BY <1>5 DEF Ids, Channels, Planes
  <2>4. stage' \in [Ids -> {"QUEUED", "CHANNEL", "WAIT_ARRAY", "ARRAY", "DONE"}]
    BY <1>1, <1>5 DEF TypeOK
  <2>5. remaining_cycles' \in [Ids -> Nat]
    BY <1>1, <1>5, TimeFacts DEF TypeOK
  <2>6. plane_active' \in [Planes -> Ids \cup {None}]
    <3>1. \A r \in Planes : plane_active'[r] \in Ids \cup {None}
      BY <1>2, <1>5, <1>6, <1>7
    <3>2. plane_active' = [r \in Planes |-> plane_active'[r]]
      BY <1>5, <1>6 DEF Taken
    <3> QED BY <3>1, <3>2
  <2> QED BY <1>1, <1>5, <2>1, <2>2, <2>3, <2>4, <2>5, <2>6 DEF TypeOK
<1>12. \A r \in Planes :
         \/ /\ plane_active'[r] = plane_active[r]
            /\ \A k \in taking : PlaneOf(commands[k]) # r
         \/ /\ plane_active'[r] \in taking /\ plane_active[r] = None
            /\ PlaneOf(commands[plane_active'[r]]) = r
  BY <1>5, <1>7
<1>13. \A k \in taking : /\ plane_active'[PlaneOf(commands[k])] = k
                         /\ plane_active[PlaneOf(commands[k])] = None
  BY <1>2, <1>3, <1>5, <1>7
<1>14. \A k \in Ids :
         /\ stage'[k] = IF k \in taking THEN "ARRAY" ELSE stage[k]
         /\ remaining_cycles'[k] = IF k \in taking THEN timing.array
                                   ELSE remaining_cycles[k]
  BY <1>5
<1>15. /\ \A k \in taking :
            \A j \in Ids : stage[j] = "WAIT_ARRAY" /\ SamePlane(j, k) => k <= j
       /\ \A k \in Ids :
            stage[k] = "WAIT_ARRAY" /\ plane_active[PlaneOf(commands[k])] = None
              => \E j \in taking : SamePlane(j, k)
  BY <1>2, <1>3 DEF SamePlane
<1>16. taking \in SUBSET Ids /\ \A k \in taking : stage[k] = "WAIT_ARRAY"
  BY <1>2
<1> QED BY <1>10, <1>11, <1>12, <1>13, <1>14, <1>15, <1>16

(* The second pass keeps the invariant.                                    *)
LEMMA ArrayKeeps ==
  ASSUME IInv, ArrayPass
  PROVE  IInv'
<1>1. PICK taking \in SUBSET Ids :
        /\ \A k \in taking :
             /\ stage[k] = "WAIT_ARRAY"
             /\ plane_active[PlaneOf(commands[k])] = None
             /\ plane_active'[PlaneOf(commands[k])] = k
             /\ \A j \in Ids : stage[j] = "WAIT_ARRAY" /\ SamePlane(j, k) => k <= j
        /\ \A k \in Ids :
             stage[k] = "WAIT_ARRAY" /\ plane_active[PlaneOf(commands[k])] = None
               => \E j \in taking : SamePlane(j, k)
        /\ \A r \in Planes :
             \/ /\ plane_active'[r] = plane_active[r]
                /\ \A k \in taking : PlaneOf(commands[k]) # r
             \/ /\ plane_active'[r] \in taking /\ plane_active[r] = None
                /\ PlaneOf(commands[plane_active'[r]]) = r
        /\ \A k \in Ids :
             /\ stage'[k] = IF k \in taking THEN "ARRAY" ELSE stage[k]
             /\ remaining_cycles'[k] = IF k \in taking THEN timing.array
                                       ELSE remaining_cycles[k]
             /\ times'[k].channel_start = times[k].channel_start
             /\ times'[k].channel_end = times[k].channel_end
             /\ times'[k].array_start = IF k \in taking THEN cycle
                                        ELSE times[k].array_start
             /\ times'[k].array_end = times[k].array_end
             /\ times'[k].complete = times[k].complete
        /\ TypeOK'
  BY ArrayFacts
<1>2. /\ commands' = commands /\ timing' = timing /\ channel_active' = channel_active
      /\ done_count' = done_count /\ cycle' = cycle /\ pc = "array" /\ pc' = "channel"
      /\ Ids' = Ids /\ Channels' = Channels /\ Planes' = Planes
  BY DEF ArrayPass, Ids, Channels, Planes
<1>3. TypeOK /\ \A k \in Ids : k \in Nat \ {0} /\ k # None
  BY IdFacts DEF IInv, None
<1>4. /\ ChannelNow = cycle /\ ChannelNow' = cycle
      /\ \A j, k : /\ SameChannel(j, k)' <=> SameChannel(j, k)
                   /\ SamePlane(j, k)' <=> SamePlane(j, k)
      /\ \A k : Compute(k)' <=> Compute(k)
  BY <1>2 DEF ChannelNow, SameChannel, SamePlane, Compute
<1>5. \A k \in Ids : ChannelEnds(k)' = ChannelEnds(k) /\ ArrayEnds(k)' = ArrayEnds(k)
  <2>1. \A k \in Ids : \A j \in 1..k - 1 : j \in Ids
    BY <1>3, IdFacts
  <2> QED BY <1>1, <1>4, <2>1 DEF ChannelEnds, ArrayEnds
<1>6. \A k \in taking : /\ times[k].array_start = -1 /\ times[k].array_end = -1
                        /\ times[k].channel_end # -1 /\ Compute(k)
  <2>1. \A k \in Ids : commands[k].opcode = "READ_SLICE" \/ Compute(k)
    BY <1>3, IdFacts DEF Compute
  <2> QED BY <1>1, <2>1 DEF IInv, RecordedByStage, OwnersExact
<1>7. OwnersExact'
  <2>1. ASSUME NEW k \in Ids
        PROVE  /\ stage'[k] = "CHANNEL" <=> channel_active[ChannelOf(commands[k])] = k
               /\ stage'[k] = "ARRAY" <=> plane_active'[PlaneOf(commands[k])] = k
               /\ commands[k].opcode = "READ_SLICE" => stage'[k] \notin {"WAIT_ARRAY", "ARRAY"}
    <3>1. /\ stage[k] = "CHANNEL" <=> channel_active[ChannelOf(commands[k])] = k
          /\ stage[k] = "ARRAY" <=> plane_active[PlaneOf(commands[k])] = k
          /\ commands[k].opcode = "READ_SLICE" => stage[k] \notin {"WAIT_ARRAY", "ARRAY"}
      BY DEF IInv, OwnersExact
    <3>2. PlaneOf(commands[k]) \in Planes
      BY <1>3, IdFacts
    <3>3. CASE k \in taking
      BY <1>1, <3>1, <3>3
    <3>4. CASE k \notin taking
      BY <1>1, <1>3, <3>1, <3>2, <3>4
    <3> QED BY <3>3, <3>4
  <2>2. {k \in Ids : stage'[k] = "DONE"} = {k \in Ids : stage[k] = "DONE"}
    BY <1>1
  <2> QED BY <1>2, <2>1, <2>2 DEF IInv, OwnersExact
<1>8. ServesItsOwn'
  BY <1>1, <1>2 DEF IInv, ServesItsOwn
<1>9. InOrder'
  <2> SUFFICES ASSUME NEW j \in Ids, NEW k \in Ids, j < k
               PROVE  /\ SameChannel(j, k) /\ stage'[k] # "QUEUED"
                           => stage'[j] \notin {"QUEUED", "CHANNEL"}
                      /\ /\ SamePlane(j, k) /\ Compute(j) /\ Compute(k)
                         /\ stage'[k] \in {"ARRAY", "DONE"}
                         => stage'[j] = "DONE"
    BY <1>2, <1>4 DEF InOrder
  <2>1. /\ SameChannel(j, k) /\ stage[k] # "QUEUED" => stage[j] \notin {"QUEUED", "CHANNEL"}
        /\ /\ SamePlane(j, k) /\ Compute(j) /\ Compute(k)
           /\ stage[k] \in {"ARRAY", "DONE"}
           => stage[j] = "DONE"
    BY DEF IInv, InOrder
  <2>2. SameChannel(j, k) /\ stage'[k] # "QUEUED" => stage'[j] \notin {"QUEUED", "CHANNEL"}
    BY <1>1, <2>1
  <2>3. ASSUME SamePlane(j, k), Compute(j), Compute(k), stage'[k] \in {"ARRAY", "DONE"}
        PROVE  stage'[j] = "DONE"
    <3>1. CASE k \notin taking
      BY <1>1, <2>1, <2>3, <3>1
    <3>2. CASE k \in taking
      <4>1. stage[j] # "WAIT_ARRAY"
        BY <1>1, <1>3, <2>3, <3>2
      <4>2. plane_active[PlaneOf(commands[j])] = None
        BY <1>1, <2>3, <3>2 DEF SamePlane
      <4>3. stage[j] # "ARRAY"
        BY <1>3, <4>2 DEF IInv, OwnersExact
      <4>4. stage[j] \notin {"QUEUED", "CHANNEL"}
        BY <1>1, <2>1, <2>3, <3>2, PlaneInChannel
      <4>5. stage[j] = "DONE"
        BY <1>3, <4>1, <4>3, <4>4 DEF TypeOK
      <4> QED BY <1>1, <4>5
    <3> QED BY <3>1, <3>2
  <2> QED BY <2>2, <2>3
<1>10. RecordedByStage'
  <2> SUFFICES ASSUME NEW k \in Ids
               PROVE  /\ times'[k].channel_start # -1 <=> stage'[k] # "QUEUED"
                      /\ times'[k].channel_end # -1 <=> stage'[k] \notin {"QUEUED", "CHANNEL"}
                      /\ times'[k].array_start # -1
                           <=> Compute(k) /\ stage'[k] \in {"ARRAY", "DONE"}
                      /\ times'[k].array_end # -1 <=> Compute(k) /\ stage'[k] = "DONE"
                      /\ times'[k].complete # -1 <=> stage'[k] = "DONE"
                      /\ stage'[k] = "DONE" =>
                           times'[k].complete = IF Compute(k) THEN times'[k].array_end
                                                ELSE times'[k].channel_end
    BY <1>2, <1>4 DEF RecordedByStage
  <2>1. cycle # -1
    BY <1>3, RowFacts
  <2> QED BY <1>1, <1>6, <2>1 DEF IInv, RecordedByStage
<1>11. CountdownExact'
  <2> SUFFICES ASSUME NEW k \in Ids
               PROVE  /\ stage'[k] = "CHANNEL" =>
                           /\ remaining_cycles'[k] >= 1
                           /\ times'[k].channel_start + ChannelTime(commands[k], timing)
                                = cycle + remaining_cycles'[k]
                      /\ stage'[k] = "ARRAY" =>
                           /\ remaining_cycles'[k] >= 1
                           /\ times'[k].array_start + timing.array
                                = cycle + remaining_cycles'[k]
                      /\ times'[k].channel_end # -1 =>
                           /\ times'[k].channel_end
                                = times'[k].channel_start + ChannelTime(commands[k], timing)
                           /\ times'[k].channel_end <= cycle
                      /\ times'[k].array_end # -1 =>
                           /\ times'[k].array_end = times'[k].array_start + timing.array
                           /\ times'[k].array_end <= cycle
    BY <1>2, <1>4 DEF CountdownExact
  <2>1. timing.array \in Nat \ {0}
    BY <1>3, TimeFacts
  <2> QED BY <1>1, <1>4, <1>6, <2>1 DEF IInv, CountdownExact
<1>12. \A k \in taking : cycle \in ArrayEnds(k) /\ \A e \in ArrayEnds(k) : e <= cycle
  <2> SUFFICES ASSUME NEW k \in taking
               PROVE  cycle \in ArrayEnds(k) /\ \A e \in ArrayEnds(k) : e <= cycle
    OBVIOUS
  <2>1. cycle \in ArrayEnds(k)
    BY <1>1, <1>2, <1>4 DEF IInv, NoCycleLost
  <2>2. \A j \in Ids : times[j].array_end <= cycle /\ times[j].channel_end <= cycle
    BY <1>3, <1>4, RowFacts DEF IInv, CountdownExact
  <2>3. cycle \in Nat /\ \A j \in 1..k - 1 : j \in Ids
    BY <1>3, IdFacts, RowFacts
  <2> QED BY <2>1, <2>2, <2>3 DEF ArrayEnds
<1>13. StartsAtLastEnd'
  <2> SUFFICES ASSUME NEW k \in Ids
               PROVE  /\ stage'[k] # "QUEUED" =>
                           /\ times'[k].channel_start \in ChannelEnds(k)
                           /\ \A e \in ChannelEnds(k) : e <= times'[k].channel_start
                      /\ Compute(k) /\ stage'[k] \in {"ARRAY", "DONE"} =>
                           /\ times'[k].array_start \in ArrayEnds(k)
                           /\ \A e \in ArrayEnds(k) : e <= times'[k].array_start
    BY <1>2, <1>4, <1>5 DEF StartsAtLastEnd
  <2> QED BY <1>1, <1>12 DEF IInv, StartsAtLastEnd
<1>14. NoCycleLost'
  <2> SUFFICES ASSUME NEW k \in Ids
               PROVE  /\ stage'[k] = "QUEUED" =>
                           channel_active[ChannelOf(commands[k])] # None
                      /\ stage'[k] = "WAIT_ARRAY" =>
                           plane_active'[PlaneOf(commands[k])] # None
    BY <1>2, <1>4, <1>5 DEF NoCycleLost
  <2>1. ASSUME stage'[k] = "WAIT_ARRAY"
        PROVE  plane_active'[PlaneOf(commands[k])] # None
    <3>1. stage[k] = "WAIT_ARRAY" /\ k \notin taking
      BY <1>1, <2>1
    <3>2. PlaneOf(commands[k]) \in Planes
      BY <1>3, IdFacts
    <3>3. CASE plane_active[PlaneOf(commands[k])] # None
      BY <1>1, <3>2, <3>3
    <3>4. CASE plane_active[PlaneOf(commands[k])] = None
      BY <1>1, <1>3, <3>1, <3>4 DEF SamePlane
    <3> QED BY <3>3, <3>4
  <2>2. stage'[k] = "QUEUED" => channel_active[ChannelOf(commands[k])] # None
    BY <1>1, <1>2, <1>4 DEF IInv, NoCycleLost
  <2> QED BY <2>1, <2>2
<1>15. Bounded'
  <2>1. ChannelMost' = ChannelMost /\ ArrayMost' = ArrayMost
    BY <1>2 DEF ChannelMost, ArrayMost
  <2> SUFFICES ASSUME NEW k \in Ids
               PROVE  /\ stage'[k] # "QUEUED" =>
                           times'[k].channel_start + ChannelMost <= ChannelMost * k
                      /\ Compute(k) /\ stage'[k] \in {"ARRAY", "DONE"} =>
                           times'[k].array_start + ArrayMost <= ChannelMost * k + ArrayMost * k
    BY <1>2, <1>4, <2>1 DEF Bounded
  <2>2. ASSUME k \in taking
        PROVE  cycle + ArrayMost <= ChannelMost * k + ArrayMost * k
    <3>1. cycle \in Nat /\ stage[k] = "WAIT_ARRAY"
      BY <1>1, <1>3, <2>2, RowFacts
    <3> QED BY <1>12, <2>2, <3>1, EndBounded DEF IInv
  <2> QED BY <1>1, <2>2 DEF IInv, Bounded
<1>16. Verdict'
  BY <1>2 DEF Verdict
<1>17. timing' \in CycleTimings /\ Len(commands') <= IFC_SSDSIM_MAX_COMMANDS
  BY <1>2 DEF IInv
<1> QED BY <1>1, <1>7, <1>8, <1>9, <1>10, <1>11, <1>13, <1>14, <1>15, <1>16, <1>17 DEF IInv

-----------------------------------------------------------------------------
(* The third pass: the channels count down.                                *)

(* The commands that end in this pass are counted as done.                 *)
LEMMA DoneCounted ==
  ASSUME TypeOK, NEW done \in SUBSET Ids,
         \A k \in done : stage[k] # "DONE",
         done_count = Cardinality({k \in Ids : stage[k] = "DONE"})
  PROVE  /\ Counted(done) \in Nat
         /\ Counted(done)
              = Cardinality({k \in Ids : IF k \in done THEN TRUE ELSE stage[k] = "DONE"})
<1> DEFINE before == {k \in Ids : stage[k] = "DONE"}
<1>1. IsFiniteSet(Ids)
  <2>1. Len(commands) \in Nat /\ 1 \in Int /\ Len(commands) \in Int /\ Ids = 1..Len(commands)
    BY IdFacts
  <2> QED BY <2>1, FS_Interval
<1>2. IsFiniteSet(before) /\ IsFiniteSet(done)
  BY <1>1, FS_Subset
<1>3. Cardinality(before \cup done)
        = Cardinality(before) + Cardinality(done) - Cardinality(before \cap done)
  BY <1>2, FS_Union
<1>4. before \cap done = {} /\ Cardinality({}) = 0
  BY FS_EmptySet
<1>5. before \cup done = {k \in Ids : IF k \in done THEN TRUE ELSE stage[k] = "DONE"}
  OBVIOUS
<1>6. Cardinality(before) \in Nat /\ Cardinality(done) \in Nat
  BY <1>2, FS_CardinalityType
<1>7. done_count = Cardinality(before)
  OBVIOUS
<1> HIDE DEF before
<1>8. Cardinality(before \cap done) = 0
  BY <1>4
<1>9. Cardinality(before \cup done) = done_count + Cardinality(done)
  BY <1>3, <1>6, <1>7, <1>8
<1>10. done_count + Cardinality(done) \in Nat
  BY <1>6, <1>7
<1> QED BY <1>5, <1>9, <1>10 DEF Counted

(* What the pass does, command by command and channel by channel.          *)
LEMMA ChannelFacts ==
  ASSUME IInv, ChannelPass
  PROVE  \E ending \in SUBSET Ids :
           /\ \A k \in Ids : k \in ending <=> stage[k] = "CHANNEL" /\ remaining_cycles[k] <= 1
           /\ \A k \in Ids :
                /\ stage'[k] = IF k \in ending
                               THEN IF Compute(k) THEN "WAIT_ARRAY" ELSE "DONE"
                               ELSE stage[k]
                /\ remaining_cycles'[k] = IF stage[k] = "CHANNEL" THEN remaining_cycles[k] - 1
                                          ELSE remaining_cycles[k]
                /\ times'[k].channel_start = times[k].channel_start
                /\ times'[k].channel_end = IF k \in ending THEN cycle + 1
                                           ELSE times[k].channel_end
                /\ times'[k].array_start = times[k].array_start
                /\ times'[k].array_end = times[k].array_end
                /\ times'[k].complete = IF k \in ending /\ ~Compute(k) THEN cycle + 1
                                        ELSE times[k].complete
           /\ \A r \in Channels :
                channel_active'[r] = IF channel_active[r] \in ending THEN None
                                     ELSE channel_active[r]
           /\ done_count' = Cardinality({k \in Ids : stage'[k] = "DONE"})
           /\ TypeOK'
<1> DEFINE ending == Ending(channel_active)
           done   == {k \in ending : commands[k].opcode = "READ_SLICE"}
<1>1. TypeOK
  BY DEF IInv
<1>2. Served(channel_active) = {k \in Ids : stage[k] = "CHANNEL"}
  BY ServedFacts DEF IInv
<1>3. /\ ending \in SUBSET Ids
      /\ \A k \in Ids : k \in ending <=> stage[k] = "CHANNEL" /\ remaining_cycles[k] <= 1
  BY <1>2 DEF Ending
<1>4. \A k \in Ids : Compute(k) <=> commands[k].opcode # "READ_SLICE"
  BY <1>1, IdFacts DEF Compute
<1>5. /\ stage' = [k \in Ids |-> IF k \in done THEN "DONE"
                                 ELSE IF k \in ending THEN "WAIT_ARRAY" ELSE stage[k]]
      /\ times' = [k \in Ids |->
           IF k \in done
           THEN [times[k] EXCEPT !.channel_end = cycle + 1, !.complete = cycle + 1]
           ELSE IF k \in ending THEN [times[k] EXCEPT !.channel_end = cycle + 1]
           ELSE times[k]]
      /\ done_count' = Counted(done)
      /\ remaining_cycles' = CountDown(channel_active)
      /\ channel_active' = Freed(channel_active)
      /\ pc' = "plane"
      /\ UNCHANGED <<commands, timing, plane_active, cycle>>
  BY DEF ChannelPass
<1>6. channel_active \in [Channels -> Ids \cup {None}]
  BY <1>1 DEF TypeOK
<1>7. channel_active' = [r \in Channels |-> IF channel_active[r] \in ending THEN None
                                            ELSE channel_active[r]]
  BY <1>5, <1>6 DEF Freed
<1>8. remaining_cycles' = [k \in Ids |-> IF stage[k] = "CHANNEL" THEN remaining_cycles[k] - 1
                                         ELSE remaining_cycles[k]]
  BY <1>2, <1>5 DEF CountDown
<1> HIDE DEF ending
<1>9. done \in SUBSET Ids /\ done = {k \in ending : ~Compute(k)}
  BY <1>3, <1>4
<1> HIDE DEF done
<1>10. times \in [Ids -> TraceRow] /\ cycle + 1 \in Nat \cup {-1}
  BY <1>1, RowFacts
<1>11. \A t \in TraceRow :
         LET u == [t EXCEPT !.channel_end = cycle + 1]
             v == [t EXCEPT !.channel_end = cycle + 1, !.complete = cycle + 1]
         IN  /\ u \in TraceRow /\ u.channel_start = t.channel_start
             /\ u.channel_end = cycle + 1 /\ u.array_start = t.array_start
             /\ u.array_end = t.array_end /\ u.complete = t.complete
             /\ v \in TraceRow /\ v.channel_start = t.channel_start
             /\ v.channel_end = cycle + 1 /\ v.array_start = t.array_start
             /\ v.array_end = t.array_end /\ v.complete = cycle + 1
  BY <1>10 DEF TraceRow, Fields
<1>12. \A k \in Ids :
         /\ times'[k] \in TraceRow
         /\ times'[k].channel_start = times[k].channel_start
         /\ times'[k].channel_end = IF k \in ending THEN cycle + 1 ELSE times[k].channel_end
         /\ times'[k].array_start = times[k].array_start
         /\ times'[k].array_end = times[k].array_end
         /\ times'[k].complete = IF k \in ending /\ ~Compute(k) THEN cycle + 1
                                 ELSE times[k].complete
  <2> SUFFICES ASSUME NEW k \in Ids
               PROVE  /\ times'[k] \in TraceRow
                      /\ times'[k].channel_start = times[k].channel_start
                      /\ times'[k].channel_end = IF k \in ending THEN cycle + 1
                                                 ELSE times[k].channel_end
                      /\ times'[k].array_start = times[k].array_start
                      /\ times'[k].array_end = times[k].array_end
                      /\ times'[k].complete = IF k \in ending /\ ~Compute(k) THEN cycle + 1
                                              ELSE times[k].complete
    OBVIOUS
  <2>1. times[k] \in TraceRow
    BY <1>10
  <2>2. CASE k \in done
    <3>1. times'[k] = [times[k] EXCEPT !.channel_end = cycle + 1, !.complete = cycle + 1]
      BY <1>5, <2>2
    <3> QED BY <1>9, <1>11, <2>1, <2>2, <3>1
  <2>3. CASE k \in ending /\ k \notin done
    <3>1. times'[k] = [times[k] EXCEPT !.channel_end = cycle + 1]
      BY <1>5, <2>3
    <3> QED BY <1>9, <1>11, <2>1, <2>3, <3>1
  <2>4. CASE k \notin ending
    BY <1>5, <1>9, <2>1, <2>4
  <2> QED BY <2>2, <2>3, <2>4
<1>13. \A k \in Ids :
         stage'[k] = IF k \in ending THEN IF Compute(k) THEN "WAIT_ARRAY" ELSE "DONE"
                     ELSE stage[k]
  BY <1>5, <1>9
<1>14. done_count' \in Nat /\ done_count' = Cardinality({k \in Ids : stage'[k] = "DONE"})
  <2>1. \A k \in done : stage[k] # "DONE"
    BY <1>3, <1>9
  <2>2. done_count = Cardinality({k \in Ids : stage[k] = "DONE"})
    BY DEF IInv, OwnersExact
  <2>3. {k \in Ids : stage'[k] = "DONE"}
          = {k \in Ids : IF k \in done THEN TRUE ELSE stage[k] = "DONE"}
    BY <1>3, <1>5, <1>9, <1>13
  <2> QED BY <1>1, <1>5, <1>9, <2>1, <2>2, <2>3, DoneCounted
<1>15. TypeOK'
  <2>1. times' \in [Ids -> TraceRow]
    BY <1>5, <1>12
  <2>2. TraceRow = [DOMAIN Unset -> Nat \cup {-1}]
    BY DEF TraceRow, Unset, Fields
  <2>3. Ids' = Ids /\ Channels' = Channels /\ Planes' = Planes
    BY <1>5 DEF Ids, Channels, Planes
  <2>4. stage' \in [Ids -> {"QUEUED", "CHANNEL", "WAIT_ARRAY", "ARRAY", "DONE"}]
    BY <1>1, <1>5 DEF TypeOK
  <2>5. remaining_cycles' \in [Ids -> Nat]
    <3>1. \A k \in Ids : remaining_cycles[k] \in Nat
      BY <1>1 DEF TypeOK
    <3>2. \A k \in Ids : stage[k] = "CHANNEL" => remaining_cycles[k] >= 1
      BY DEF IInv, CountdownExact
    <3> QED BY <1>8, <3>1, <3>2
  <2>6. channel_active' \in [Channels -> Ids \cup {None}]
    BY <1>6, <1>7
  <2> QED BY <1>1, <1>5, <1>14, <2>1, <2>2, <2>3, <2>4, <2>5, <2>6 DEF TypeOK
<1>16. \A k \in Ids :
         remaining_cycles'[k] = IF stage[k] = "CHANNEL" THEN remaining_cycles[k] - 1
                                ELSE remaining_cycles[k]
  BY <1>8
<1>17. \A r \in Channels :
         channel_active'[r] = IF channel_active[r] \in ending THEN None
                              ELSE channel_active[r]
  BY <1>7
<1> QED BY <1>3, <1>12, <1>13, <1>14, <1>15, <1>16, <1>17

(* The third pass keeps the invariant.                                     *)
LEMMA ChannelKeeps ==
  ASSUME IInv, ChannelPass
  PROVE  IInv'
<1>1. PICK ending \in SUBSET Ids :
        /\ \A k \in Ids : k \in ending <=> stage[k] = "CHANNEL" /\ remaining_cycles[k] <= 1
        /\ \A k \in Ids :
             /\ stage'[k] = IF k \in ending
                            THEN IF Compute(k) THEN "WAIT_ARRAY" ELSE "DONE"
                            ELSE stage[k]
             /\ remaining_cycles'[k] = IF stage[k] = "CHANNEL" THEN remaining_cycles[k] - 1
                                       ELSE remaining_cycles[k]
             /\ times'[k].channel_start = times[k].channel_start
             /\ times'[k].channel_end = IF k \in ending THEN cycle + 1
                                        ELSE times[k].channel_end
             /\ times'[k].array_start = times[k].array_start
             /\ times'[k].array_end = times[k].array_end
             /\ times'[k].complete = IF k \in ending /\ ~Compute(k) THEN cycle + 1
                                     ELSE times[k].complete
        /\ \A r \in Channels :
             channel_active'[r] = IF channel_active[r] \in ending THEN None
                                  ELSE channel_active[r]
        /\ done_count' = Cardinality({k \in Ids : stage'[k] = "DONE"})
        /\ TypeOK'
  BY ChannelFacts
<1>2. /\ commands' = commands /\ timing' = timing /\ plane_active' = plane_active
      /\ cycle' = cycle /\ pc = "channel" /\ pc' = "plane"
      /\ Ids' = Ids /\ Channels' = Channels /\ Planes' = Planes
  BY DEF ChannelPass, Ids, Channels, Planes
<1>3. /\ TypeOK /\ cycle \in Nat
      /\ \A k \in Ids : /\ k \in Nat \ {0} /\ k # None
                        /\ remaining_cycles[k] \in Nat
                        /\ Compute(k) <=> commands[k].opcode # "READ_SLICE"
                        /\ ChannelOf(commands[k]) \in Channels
  BY IdFacts DEF IInv, None, TypeOK, Compute
<1>4. /\ ChannelNow = cycle /\ ChannelNow' = cycle + 1
      /\ \A j, k : /\ SameChannel(j, k)' <=> SameChannel(j, k)
                   /\ SamePlane(j, k)' <=> SamePlane(j, k)
      /\ \A k : Compute(k)' <=> Compute(k)
  BY <1>2 DEF ChannelNow, SameChannel, SamePlane, Compute
<1>5. \A k \in Ids : \A j \in 1..k - 1 : j \in Ids /\ j < k
  BY <1>3, IdFacts
<1>6. \A k \in ending : /\ times[k].channel_end = -1 /\ times[k].channel_start # -1
                        /\ times[k].array_start = -1 /\ times[k].array_end = -1
                        /\ remaining_cycles[k] = 1
                        /\ times[k].channel_start + ChannelTime(commands[k], timing) = cycle + 1
  BY <1>1, <1>3, <1>4 DEF IInv, RecordedByStage, CountdownExact
<1>7. OwnersExact'
  <2>1. ASSUME NEW k \in Ids
        PROVE  /\ stage'[k] = "CHANNEL" <=> channel_active'[ChannelOf(commands[k])] = k
               /\ stage'[k] = "ARRAY" <=> plane_active[PlaneOf(commands[k])] = k
               /\ commands[k].opcode = "READ_SLICE" => stage'[k] \notin {"WAIT_ARRAY", "ARRAY"}
    <3>1. /\ stage[k] = "CHANNEL" <=> channel_active[ChannelOf(commands[k])] = k
          /\ stage[k] = "ARRAY" <=> plane_active[PlaneOf(commands[k])] = k
          /\ commands[k].opcode = "READ_SLICE" => stage[k] \notin {"WAIT_ARRAY", "ARRAY"}
      BY DEF IInv, OwnersExact
    <3> QED BY <1>1, <1>3, <3>1
  <2> QED BY <1>1, <1>2, <2>1 DEF OwnersExact
<1>8. ServesItsOwn'
  BY <1>1, <1>2 DEF IInv, ServesItsOwn
<1>9. InOrder'
  <2> SUFFICES ASSUME NEW j \in Ids, NEW k \in Ids, j < k
               PROVE  /\ SameChannel(j, k) /\ stage'[k] # "QUEUED"
                           => stage'[j] \notin {"QUEUED", "CHANNEL"}
                      /\ /\ SamePlane(j, k) /\ Compute(j) /\ Compute(k)
                         /\ stage'[k] \in {"ARRAY", "DONE"}
                         => stage'[j] = "DONE"
    BY <1>2, <1>4 DEF InOrder
  <2>1. /\ SameChannel(j, k) /\ stage[k] # "QUEUED" => stage[j] \notin {"QUEUED", "CHANNEL"}
        /\ /\ SamePlane(j, k) /\ Compute(j) /\ Compute(k)
           /\ stage[k] \in {"ARRAY", "DONE"}
           => stage[j] = "DONE"
    BY DEF IInv, InOrder
  <2> QED BY <1>1, <2>1
<1>10. RecordedByStage'
  <2> SUFFICES ASSUME NEW k \in Ids
               PROVE  /\ times'[k].channel_start # -1 <=> stage'[k] # "QUEUED"
                      /\ times'[k].channel_end # -1 <=> stage'[k] \notin {"QUEUED", "CHANNEL"}
                      /\ times'[k].array_start # -1
                           <=> Compute(k) /\ stage'[k] \in {"ARRAY", "DONE"}
                      /\ times'[k].array_end # -1 <=> Compute(k) /\ stage'[k] = "DONE"
                      /\ times'[k].complete # -1 <=> stage'[k] = "DONE"
                      /\ stage'[k] = "DONE" =>
                           times'[k].complete = IF Compute(k) THEN times'[k].array_end
                                                ELSE times'[k].channel_end
    BY <1>2, <1>4 DEF RecordedByStage
  <2>1. cycle + 1 # -1
    BY <1>3
  <2> QED BY <1>1, <1>6, <2>1 DEF IInv, RecordedByStage
<1>11. CountdownExact'
  <2> SUFFICES ASSUME NEW k \in Ids
               PROVE  /\ stage'[k] = "CHANNEL" =>
                           /\ remaining_cycles'[k] >= 1
                           /\ times'[k].channel_start + ChannelTime(commands[k], timing)
                                = cycle + 1 + remaining_cycles'[k]
                      /\ stage'[k] = "ARRAY" =>
                           /\ remaining_cycles'[k] >= 1
                           /\ times'[k].array_start + timing.array
                                = cycle + remaining_cycles'[k]
                      /\ times'[k].channel_end # -1 =>
                           /\ times'[k].channel_end
                                = times'[k].channel_start + ChannelTime(commands[k], timing)
                           /\ times'[k].channel_end <= cycle + 1
                      /\ times'[k].array_end # -1 =>
                           /\ times'[k].array_end = times'[k].array_start + timing.array
                           /\ times'[k].array_end <= cycle
    BY <1>2, <1>4 DEF CountdownExact
  <2>1. /\ times[k].channel_end \in Int /\ times[k].channel_start \in Int
        /\ ChannelTime(commands[k], timing) \in Int /\ remaining_cycles[k] \in Int
    BY <1>3, RowFacts, TimeFacts
  <2>2. /\ stage[k] = "CHANNEL" =>
             /\ remaining_cycles[k] >= 1
             /\ times[k].channel_start + ChannelTime(commands[k], timing)
                  = cycle + remaining_cycles[k]
        /\ stage[k] = "ARRAY" =>
             /\ remaining_cycles[k] >= 1
             /\ times[k].array_start + timing.array = cycle + remaining_cycles[k]
        /\ times[k].channel_end # -1 =>
             /\ times[k].channel_end
                  = times[k].channel_start + ChannelTime(commands[k], timing)
             /\ times[k].channel_end <= cycle
        /\ times[k].array_end # -1 =>
             /\ times[k].array_end = times[k].array_start + timing.array
             /\ times[k].array_end <= cycle
    BY <1>4 DEF IInv, CountdownExact
  <2>3. CASE k \in ending
    BY <1>1, <1>3, <1>6, <2>1, <2>3
  <2>4. CASE k \notin ending
    BY <1>1, <1>3, <2>1, <2>2, <2>4
  <2> QED BY <2>3, <2>4
<1>12. ASSUME NEW k \in Ids, stage[k] # "QUEUED"
       PROVE  ChannelEnds(k)' = ChannelEnds(k)
  <2>1. \A j \in 1..k - 1 : SameChannel(j, k) => j \in Ids /\ j \notin ending
    BY <1>1, <1>5, <1>12 DEF IInv, InOrder
  <2>2. \A j \in 1..k - 1 :
          SameChannel(j, k) => times'[j].channel_end = times[j].channel_end
    BY <1>1, <2>1
  <2> QED BY <1>4, <2>2 DEF ChannelEnds
<1>13. ASSUME NEW k \in Ids, k \notin ending
       PROVE  ArrayEnds(k)' = ArrayEnds(k)
  BY <1>1, <1>4, <1>5, <1>13 DEF ArrayEnds
<1>14. StartsAtLastEnd'
  <2> SUFFICES ASSUME NEW k \in Ids
               PROVE  /\ stage'[k] # "QUEUED" =>
                           /\ times'[k].channel_start \in ChannelEnds(k)'
                           /\ \A e \in ChannelEnds(k)' : e <= times'[k].channel_start
                      /\ Compute(k) /\ stage'[k] \in {"ARRAY", "DONE"} =>
                           /\ times'[k].array_start \in ArrayEnds(k)'
                           /\ \A e \in ArrayEnds(k)' : e <= times'[k].array_start
    BY <1>2, <1>4 DEF StartsAtLastEnd
  <2>1. /\ stage'[k] # "QUEUED" => stage[k] # "QUEUED"
        /\ Compute(k) /\ stage'[k] \in {"ARRAY", "DONE"} =>
             stage[k] \in {"ARRAY", "DONE"} /\ k \notin ending
    BY <1>1
  <2> QED BY <1>1, <1>12, <1>13, <2>1 DEF IInv, StartsAtLastEnd
<1>15. NoCycleLost'
  <2> SUFFICES ASSUME NEW k \in Ids
               PROVE  /\ stage'[k] = "QUEUED" =>
                           \/ channel_active'[ChannelOf(commands[k])] # None
                           \/ cycle + 1 \in ChannelEnds(k)'
                      /\ stage'[k] = "WAIT_ARRAY" =>
                           \/ plane_active[PlaneOf(commands[k])] # None
                           \/ cycle + 1 \in ArrayEnds(k)'
    BY <1>2, <1>4 DEF NoCycleLost
  <2>1. ASSUME stage'[k] = "QUEUED", channel_active'[ChannelOf(commands[k])] = None
        PROVE  cycle + 1 \in ChannelEnds(k)'
    <3>1. stage[k] = "QUEUED" /\ channel_active[ChannelOf(commands[k])] # None
      BY <1>1, <1>2, <2>1 DEF IInv, NoCycleLost
    <3>2. PICK j \in ending : j = channel_active[ChannelOf(commands[k])]
      BY <1>1, <1>3, <2>1, <3>1
    <3>3. j \in Ids /\ SameChannel(j, k) /\ stage[j] = "CHANNEL"
      BY <1>1, <1>3, <3>1, <3>2 DEF IInv, ServesItsOwn, SameChannel
    <3>4. ~(k < j)
      BY <3>1, <3>3 DEF IInv, InOrder, SameChannel
    <3>5. j \in 1..k - 1
      BY <1>3, <3>1, <3>3, <3>4
    <3> QED BY <1>1, <1>4, <3>2, <3>3, <3>5 DEF ChannelEnds
  <2>2. ASSUME stage'[k] = "WAIT_ARRAY", plane_active[PlaneOf(commands[k])] = None
        PROVE  cycle + 1 \in ArrayEnds(k)'
    <3>1. k \in ending
      BY <1>1, <1>2, <2>2 DEF IInv, NoCycleLost
    <3> QED BY <1>1, <3>1 DEF ArrayEnds
  <2> QED BY <2>1, <2>2
<1>16. Bounded'
  <2>1. ChannelMost' = ChannelMost /\ ArrayMost' = ArrayMost
    BY <1>2 DEF ChannelMost, ArrayMost
  <2> QED BY <1>1, <1>2, <1>4, <2>1 DEF IInv, Bounded
<1>17. Verdict'
  BY <1>2 DEF Verdict
<1>18. timing' \in CycleTimings /\ Len(commands') <= IFC_SSDSIM_MAX_COMMANDS
  BY <1>2 DEF IInv
<1> QED BY <1>1, <1>7, <1>8, <1>9, <1>10, <1>11, <1>14, <1>15, <1>16, <1>17, <1>18 DEF IInv

-----------------------------------------------------------------------------
(* The fourth pass: the planes count down, and the cycle ends.             *)

(* What the pass does, command by command and plane by plane.              *)
LEMMA PlaneFacts ==
  ASSUME IInv, PlanePass
  PROVE  \E ending \in SUBSET Ids :
           /\ \A k \in Ids : k \in ending <=> stage[k] = "ARRAY" /\ remaining_cycles[k] <= 1
           /\ \A k \in Ids :
                /\ stage'[k] = IF k \in ending THEN "DONE" ELSE stage[k]
                /\ remaining_cycles'[k] = IF stage[k] = "ARRAY" THEN remaining_cycles[k] - 1
                                          ELSE remaining_cycles[k]
                /\ times'[k].channel_start = times[k].channel_start
                /\ times'[k].channel_end = times[k].channel_end
                /\ times'[k].array_start = times[k].array_start
                /\ times'[k].array_end = IF k \in ending THEN cycle + 1
                                         ELSE times[k].array_end
                /\ times'[k].complete = IF k \in ending THEN cycle + 1
                                        ELSE times[k].complete
           /\ \A r \in Planes :
                plane_active'[r] = IF plane_active[r] \in ending THEN None
                                   ELSE plane_active[r]
           /\ done_count' = Cardinality({k \in Ids : stage'[k] = "DONE"})
           /\ pc' = LoopTest(done_count')
           /\ TypeOK'
<1> DEFINE ending == Ending(plane_active)
<1>1. TypeOK
  BY DEF IInv
<1>2. Served(plane_active) = {k \in Ids : stage[k] = "ARRAY"}
  BY ServedFacts DEF IInv
<1>3. /\ ending \in SUBSET Ids
      /\ \A k \in Ids : k \in ending <=> stage[k] = "ARRAY" /\ remaining_cycles[k] <= 1
  BY <1>2 DEF Ending
<1>4. /\ stage' = [k \in Ids |-> IF k \in ending THEN "DONE" ELSE stage[k]]
      /\ times' = [k \in Ids |->
           IF k \in ending
           THEN [times[k] EXCEPT !.array_end = cycle + 1, !.complete = cycle + 1]
           ELSE times[k]]
      /\ done_count' = Counted(ending)
      /\ remaining_cycles' = CountDown(plane_active)
      /\ plane_active' = Freed(plane_active)
      /\ cycle' = cycle + 1
      /\ pc' = LoopTest(Counted(ending))
      /\ UNCHANGED <<commands, timing, channel_active>>
  BY DEF PlanePass
<1>5. plane_active \in [Planes -> Ids \cup {None}]
  BY <1>1 DEF TypeOK
<1>6. plane_active' = [r \in Planes |-> IF plane_active[r] \in ending THEN None
                                        ELSE plane_active[r]]
  BY <1>4, <1>5 DEF Freed
<1>7. remaining_cycles' = [k \in Ids |-> IF stage[k] = "ARRAY" THEN remaining_cycles[k] - 1
                                         ELSE remaining_cycles[k]]
  BY <1>2, <1>4 DEF CountDown
<1> HIDE DEF ending
<1>8. times \in [Ids -> TraceRow] /\ cycle + 1 \in Nat /\ cycle + 1 \in Nat \cup {-1}
  BY <1>1, RowFacts
<1>9. \A t \in TraceRow :
        LET u == [t EXCEPT !.array_end = cycle + 1, !.complete = cycle + 1]
        IN  /\ u \in TraceRow /\ u.channel_start = t.channel_start
            /\ u.channel_end = t.channel_end /\ u.array_start = t.array_start
            /\ u.array_end = cycle + 1 /\ u.complete = cycle + 1
  BY <1>8 DEF TraceRow, Fields
<1>10. \A k \in Ids :
         /\ times'[k] \in TraceRow
         /\ times'[k].channel_start = times[k].channel_start
         /\ times'[k].channel_end = times[k].channel_end
         /\ times'[k].array_start = times[k].array_start
         /\ times'[k].array_end = IF k \in ending THEN cycle + 1 ELSE times[k].array_end
         /\ times'[k].complete = IF k \in ending THEN cycle + 1 ELSE times[k].complete
  BY <1>4, <1>8, <1>9
<1>11. \A k \in Ids : stage'[k] = IF k \in ending THEN "DONE" ELSE stage[k]
  BY <1>4
<1>12. done_count' \in Nat /\ done_count' = Cardinality({k \in Ids : stage'[k] = "DONE"})
  <2>1. \A k \in ending : stage[k] # "DONE"
    BY <1>3
  <2>2. done_count = Cardinality({k \in Ids : stage[k] = "DONE"})
    BY DEF IInv, OwnersExact
  <2>3. {k \in Ids : stage'[k] = "DONE"}
          = {k \in Ids : IF k \in ending THEN TRUE ELSE stage[k] = "DONE"}
    BY <1>11
  <2> QED BY <1>1, <1>3, <1>4, <2>1, <2>2, <2>3, DoneCounted
<1>13. TypeOK'
  <2>1. times' \in [Ids -> TraceRow]
    BY <1>4, <1>10
  <2>2. TraceRow = [DOMAIN Unset -> Nat \cup {-1}]
    BY DEF TraceRow, Unset, Fields
  <2>3. Ids' = Ids /\ Channels' = Channels /\ Planes' = Planes
    BY <1>4 DEF Ids, Channels, Planes
  <2>4. stage' \in [Ids -> {"QUEUED", "CHANNEL", "WAIT_ARRAY", "ARRAY", "DONE"}]
    BY <1>1, <1>4 DEF TypeOK
  <2>5. remaining_cycles' \in [Ids -> Nat]
    <3>1. \A k \in Ids : remaining_cycles[k] \in Nat
      BY <1>1 DEF TypeOK
    <3>2. \A k \in Ids : stage[k] = "ARRAY" => remaining_cycles[k] >= 1
      BY DEF IInv, CountdownExact
    <3> QED BY <1>7, <3>1, <3>2
  <2>6. plane_active' \in [Planes -> Ids \cup {None}]
    BY <1>5, <1>6
  <2>7. pc' \in {"ok", "issue", "guard"}
    BY <1>4 DEF LoopTest
  <2>8. cycle' \in Nat
    BY <1>4, <1>8
  <2> QED BY <1>1, <1>4, <1>12, <2>1, <2>2, <2>3, <2>4, <2>5, <2>6, <2>7, <2>8 DEF TypeOK
<1>14. \A k \in Ids :
         remaining_cycles'[k] = IF stage[k] = "ARRAY" THEN remaining_cycles[k] - 1
                                ELSE remaining_cycles[k]
  BY <1>7
<1>15. \A r \in Planes :
         plane_active'[r] = IF plane_active[r] \in ending THEN None ELSE plane_active[r]
  BY <1>6
<1>16. pc' = LoopTest(done_count')
  BY <1>4
<1> QED BY <1>3, <1>10, <1>11, <1>12, <1>13, <1>14, <1>15, <1>16

(* While a command is unfinished, something is being served, or was served *)
(* until this very cycle, that ends within the bound.                      *)
Unfinished ==
  /\ TypeOK /\ timing \in CycleTimings /\ Len(commands) <= IFC_SSDSIM_MAX_COMMANDS
  /\ OwnersExact /\ ServesItsOwn /\ RecordedByStage /\ CountdownExact /\ NoCycleLost
  /\ Bounded /\ ChannelNow = cycle
  /\ \E k \in Ids : stage[k] # "DONE"

LEMMA WithinLimit == Unfinished => cycle < GuardLimit
<1> SUFFICES ASSUME TypeOK, Len(commands) <= IFC_SSDSIM_MAX_COMMANDS,
                    OwnersExact, ServesItsOwn, RecordedByStage, CountdownExact,
                    NoCycleLost, Bounded, ChannelNow = cycle, timing \in CycleTimings,
                    NEW k \in Ids, stage[k] # "DONE"
             PROVE  cycle < GuardLimit
  BY DEF Unfinished
<1> DEFINE Most == ChannelMost * Len(commands) + ArrayMost * Len(commands)
<1>1. /\ ChannelMost \in Nat /\ ArrayMost \in Nat /\ cycle \in Nat
      /\ Len(commands) \in Nat
      /\ \A j \in Ids : j \in Nat \ {0} /\ j <= Len(commands)
  BY IdFacts, TimeFacts, RowFacts
<1>2. Most < GuardLimit /\ GuardLimit \in Int
  <2>1. GuardLimit > IFC_SSDSIM_MAX_COMMANDS * (ChannelMost + ArrayMost)
    BY CycleControllerAssumption DEF ChannelMost, ArrayMost
  <2>2. /\ GuardLimit \in Nat /\ IFC_SSDSIM_MAX_COMMANDS \in Nat
        /\ ChannelMost + ArrayMost \in Nat
    BY <1>1, CycleControllerAssumption, LimitsAssumption
  <2>3. IFC_SSDSIM_MAX_COMMANDS * (ChannelMost + ArrayMost)
          = ChannelMost * IFC_SSDSIM_MAX_COMMANDS + ArrayMost * IFC_SSDSIM_MAX_COMMANDS
    BY <1>1, <2>2
  <2>4. /\ ChannelMost * Len(commands) <= ChannelMost * IFC_SSDSIM_MAX_COMMANDS
        /\ ArrayMost * Len(commands) <= ArrayMost * IFC_SSDSIM_MAX_COMMANDS
    BY <1>1, <2>2, MoreMultiple
  <2>5. /\ ChannelMost * Len(commands) \in Int /\ ArrayMost * Len(commands) \in Int
        /\ ChannelMost * IFC_SSDSIM_MAX_COMMANDS \in Int
        /\ ArrayMost * IFC_SSDSIM_MAX_COMMANDS \in Int
    BY <1>1, <2>2
  <2> QED BY <2>1, <2>2, <2>3, <2>4, <2>5
<1>3. /\ Most \in Int
      /\ \A j \in Ids : /\ ChannelMost * j \in Nat /\ ArrayMost * j \in Nat
                        /\ ChannelMost * j <= ChannelMost * Len(commands)
                        /\ ArrayMost * j <= ArrayMost * Len(commands)
  BY <1>1, MoreMultiple
<1>4. \A j \in Ids : ChannelMost * j <= Most /\ ChannelMost * j + ArrayMost * j <= Most
  <2>1. ChannelMost * Len(commands) \in Nat /\ ArrayMost * Len(commands) \in Nat
    BY <1>1
  <2> QED BY <1>3, <2>1
<1> HIDE DEF Most
<1>5. ASSUME NEW j \in Ids, stage[j] = "CHANNEL"
      PROVE  cycle < GuardLimit
  <2>1. /\ remaining_cycles[j] >= 1 /\ remaining_cycles[j] \in Int
        /\ times[j].channel_start + ChannelTime(commands[j], timing)
             = cycle + remaining_cycles[j]
    BY <1>5 DEF CountdownExact, TypeOK
  <2>2. times[j].channel_start + ChannelMost <= ChannelMost * j
    BY <1>5 DEF Bounded
  <2>3. ChannelTime(commands[j], timing) \in Nat /\ times[j].channel_start \in Int
        /\ ChannelTime(commands[j], timing) <= ChannelMost /\ ChannelMost * j \in Int
    BY <1>3, TimeFacts, RowFacts
  <2>4. ChannelMost * j <= Most
    BY <1>4
  <2>5. cycle < ChannelMost * j
    BY <1>1, <2>1, <2>2, <2>3
  <2>6. cycle < Most
    BY <1>1, <1>3, <2>3, <2>4, <2>5
  <2> QED BY <1>1, <1>2, <1>3, <2>6
<1>6. ASSUME NEW j \in Ids, stage[j] = "ARRAY"
      PROVE  cycle < GuardLimit
  <2>1. Compute(j)
    BY <1>6, IdFacts DEF OwnersExact, Compute
  <2>2. /\ remaining_cycles[j] >= 1 /\ remaining_cycles[j] \in Int
        /\ times[j].array_start + ArrayMost = cycle + remaining_cycles[j]
    BY <1>6 DEF CountdownExact, TypeOK, ArrayMost
  <2>3. times[j].array_start + ArrayMost <= ChannelMost * j + ArrayMost * j
    BY <1>6, <2>1 DEF Bounded
  <2>4. times[j].array_start \in Int /\ ChannelMost * j + ArrayMost * j \in Int
    BY <1>3, RowFacts
  <2>5. ChannelMost * j + ArrayMost * j <= Most
    BY <1>4
  <2>6. cycle < ChannelMost * j + ArrayMost * j
    BY <1>1, <2>2, <2>3, <2>4
  <2>7. cycle < Most
    BY <1>1, <1>3, <2>4, <2>5, <2>6
  <2> QED BY <1>1, <1>2, <1>3, <2>7
<1>7. CASE stage[k] = "QUEUED"
  <2>1. CASE channel_active[ChannelOf(commands[k])] # None
    <3>1. ChannelOf(commands[k]) \in Channels
      BY IdFacts
    <3>2. PICK j \in Ids : j = channel_active[ChannelOf(commands[k])]
      BY <2>1, <3>1 DEF TypeOK
    <3>3. stage[j] = "CHANNEL"
      BY <2>1, <3>1, <3>2 DEF ServesItsOwn, OwnersExact
    <3> QED BY <1>5, <3>3
  <2>2. CASE channel_active[ChannelOf(commands[k])] = None
    <3>1. cycle \in ChannelEnds(k)
      BY <1>7, <2>2 DEF NoCycleLost
    <3>2. cycle + ChannelMost <= ChannelMost * k
      BY <1>1, <3>1, EndBounded
    <3>3. ChannelMost * k <= Most /\ ChannelMost * k \in Int
      BY <1>3, <1>4
    <3> QED BY <1>1, <1>2, <1>3, <3>2, <3>3
  <2> QED BY <2>1, <2>2
<1>8. CASE stage[k] = "WAIT_ARRAY"
  <2>1. CASE plane_active[PlaneOf(commands[k])] # None
    <3>1. PlaneOf(commands[k]) \in Planes
      BY IdFacts
    <3>2. PICK j \in Ids : j = plane_active[PlaneOf(commands[k])]
      BY <2>1, <3>1 DEF TypeOK
    <3>3. stage[j] = "ARRAY"
      BY <2>1, <3>1, <3>2 DEF ServesItsOwn, OwnersExact
    <3> QED BY <1>6, <3>3
  <2>2. CASE plane_active[PlaneOf(commands[k])] = None
    <3>1. cycle \in ArrayEnds(k)
      BY <1>8, <2>2 DEF NoCycleLost
    <3>2. cycle + ArrayMost <= ChannelMost * k + ArrayMost * k
      BY <1>1, <1>8, <3>1, EndBounded
    <3>3. /\ ChannelMost * k + ArrayMost * k <= Most
          /\ ChannelMost * k + ArrayMost * k \in Int
      BY <1>3, <1>4
    <3> QED BY <1>1, <1>2, <1>3, <3>2, <3>3
  <2> QED BY <2>1, <2>2
<1> QED BY <1>5, <1>6, <1>7, <1>8 DEF TypeOK

(* The fourth pass keeps the invariant.                                    *)
LEMMA PlaneKeeps ==
  ASSUME IInv, PlanePass
  PROVE  IInv'
<1>1. PICK ending \in SUBSET Ids :
        /\ \A k \in Ids : k \in ending <=> stage[k] = "ARRAY" /\ remaining_cycles[k] <= 1
        /\ \A k \in Ids :
             /\ stage'[k] = IF k \in ending THEN "DONE" ELSE stage[k]
             /\ remaining_cycles'[k] = IF stage[k] = "ARRAY" THEN remaining_cycles[k] - 1
                                       ELSE remaining_cycles[k]
             /\ times'[k].channel_start = times[k].channel_start
             /\ times'[k].channel_end = times[k].channel_end
             /\ times'[k].array_start = times[k].array_start
             /\ times'[k].array_end = IF k \in ending THEN cycle + 1
                                      ELSE times[k].array_end
             /\ times'[k].complete = IF k \in ending THEN cycle + 1
                                     ELSE times[k].complete
        /\ \A r \in Planes :
             plane_active'[r] = IF plane_active[r] \in ending THEN None
                                ELSE plane_active[r]
        /\ done_count' = Cardinality({k \in Ids : stage'[k] = "DONE"})
        /\ pc' = LoopTest(done_count')
        /\ TypeOK'
  BY PlaneFacts
<1>2. /\ commands' = commands /\ timing' = timing /\ channel_active' = channel_active
      /\ cycle' = cycle + 1 /\ pc = "plane"
      /\ Ids' = Ids /\ Channels' = Channels /\ Planes' = Planes
  BY DEF PlanePass, Ids, Channels, Planes
<1>3. /\ TypeOK /\ cycle \in Nat
      /\ \A k \in Ids : /\ k \in Nat \ {0} /\ k # None
                        /\ remaining_cycles[k] \in Nat
                        /\ PlaneOf(commands[k]) \in Planes
  BY IdFacts DEF IInv, None, TypeOK
<1>4. /\ ChannelNow = cycle + 1 /\ ChannelNow' = cycle + 1
      /\ pc' \notin {"array", "channel", "plane"}
      /\ \A j, k : /\ SameChannel(j, k)' <=> SameChannel(j, k)
                   /\ SamePlane(j, k)' <=> SamePlane(j, k)
      /\ \A k : Compute(k)' <=> Compute(k)
  BY <1>1, <1>2 DEF ChannelNow, SameChannel, SamePlane, Compute, LoopTest
<1>5. \A k \in Ids : \A j \in 1..k - 1 : j \in Ids /\ j < k
  BY <1>3, IdFacts
<1>6. \A k \in ending : /\ times[k].array_end = -1 /\ times[k].array_start # -1
                        /\ Compute(k) /\ remaining_cycles[k] = 1
                        /\ times[k].array_start + timing.array = cycle + 1
  <2>1. \A k \in Ids : commands[k].opcode = "READ_SLICE" \/ Compute(k)
    BY <1>3, IdFacts DEF Compute
  <2> QED BY <1>1, <1>3, <2>1 DEF IInv, RecordedByStage, CountdownExact, OwnersExact
<1>7. OwnersExact'
  <2>1. ASSUME NEW k \in Ids
        PROVE  /\ stage'[k] = "CHANNEL" <=> channel_active[ChannelOf(commands[k])] = k
               /\ stage'[k] = "ARRAY" <=> plane_active'[PlaneOf(commands[k])] = k
               /\ commands[k].opcode = "READ_SLICE" => stage'[k] \notin {"WAIT_ARRAY", "ARRAY"}
    <3>1. /\ stage[k] = "CHANNEL" <=> channel_active[ChannelOf(commands[k])] = k
          /\ stage[k] = "ARRAY" <=> plane_active[PlaneOf(commands[k])] = k
          /\ commands[k].opcode = "READ_SLICE" => stage[k] \notin {"WAIT_ARRAY", "ARRAY"}
      BY DEF IInv, OwnersExact
    <3> QED BY <1>1, <1>3, <3>1
  <2> QED BY <1>1, <1>2, <2>1 DEF OwnersExact
<1>8. ServesItsOwn'
  BY <1>1, <1>2 DEF IInv, ServesItsOwn
<1>9. InOrder'
  <2> SUFFICES ASSUME NEW j \in Ids, NEW k \in Ids, j < k
               PROVE  /\ SameChannel(j, k) /\ stage'[k] # "QUEUED"
                           => stage'[j] \notin {"QUEUED", "CHANNEL"}
                      /\ /\ SamePlane(j, k) /\ Compute(j) /\ Compute(k)
                         /\ stage'[k] \in {"ARRAY", "DONE"}
                         => stage'[j] = "DONE"
    BY <1>2, <1>4 DEF InOrder
  <2>1. /\ SameChannel(j, k) /\ stage[k] # "QUEUED" => stage[j] \notin {"QUEUED", "CHANNEL"}
        /\ /\ SamePlane(j, k) /\ Compute(j) /\ Compute(k)
           /\ stage[k] \in {"ARRAY", "DONE"}
           => stage[j] = "DONE"
    BY DEF IInv, InOrder
  <2> QED BY <1>1, <2>1
<1>10. RecordedByStage'
  <2> SUFFICES ASSUME NEW k \in Ids
               PROVE  /\ times'[k].channel_start # -1 <=> stage'[k] # "QUEUED"
                      /\ times'[k].channel_end # -1 <=> stage'[k] \notin {"QUEUED", "CHANNEL"}
                      /\ times'[k].array_start # -1
                           <=> Compute(k) /\ stage'[k] \in {"ARRAY", "DONE"}
                      /\ times'[k].array_end # -1 <=> Compute(k) /\ stage'[k] = "DONE"
                      /\ times'[k].complete # -1 <=> stage'[k] = "DONE"
                      /\ stage'[k] = "DONE" =>
                           times'[k].complete = IF Compute(k) THEN times'[k].array_end
                                                ELSE times'[k].channel_end
    BY <1>2, <1>4 DEF RecordedByStage
  <2>1. cycle + 1 # -1
    BY <1>3
  <2> QED BY <1>1, <1>6, <2>1 DEF IInv, RecordedByStage
<1>11. CountdownExact'
  <2> SUFFICES ASSUME NEW k \in Ids
               PROVE  /\ stage'[k] = "CHANNEL" =>
                           /\ remaining_cycles'[k] >= 1
                           /\ times'[k].channel_start + ChannelTime(commands[k], timing)
                                = cycle + 1 + remaining_cycles'[k]
                      /\ stage'[k] = "ARRAY" =>
                           /\ remaining_cycles'[k] >= 1
                           /\ times'[k].array_start + timing.array
                                = cycle + 1 + remaining_cycles'[k]
                      /\ times'[k].channel_end # -1 =>
                           /\ times'[k].channel_end
                                = times'[k].channel_start + ChannelTime(commands[k], timing)
                           /\ times'[k].channel_end <= cycle + 1
                      /\ times'[k].array_end # -1 =>
                           /\ times'[k].array_end = times'[k].array_start + timing.array
                           /\ times'[k].array_end <= cycle + 1
    BY <1>2, <1>4 DEF CountdownExact
  <2>1. /\ times[k].array_end \in Int /\ times[k].array_start \in Int
        /\ timing.array \in Int /\ remaining_cycles[k] \in Int
    BY <1>3, RowFacts, TimeFacts
  <2>2. /\ stage[k] = "CHANNEL" =>
             /\ remaining_cycles[k] >= 1
             /\ times[k].channel_start + ChannelTime(commands[k], timing)
                  = cycle + 1 + remaining_cycles[k]
        /\ stage[k] = "ARRAY" =>
             /\ remaining_cycles[k] >= 1
             /\ times[k].array_start + timing.array = cycle + remaining_cycles[k]
        /\ times[k].channel_end # -1 =>
             /\ times[k].channel_end
                  = times[k].channel_start + ChannelTime(commands[k], timing)
             /\ times[k].channel_end <= cycle + 1
        /\ times[k].array_end # -1 =>
             /\ times[k].array_end = times[k].array_start + timing.array
             /\ times[k].array_end <= cycle
    BY <1>4 DEF IInv, CountdownExact
  <2>3. CASE k \in ending
    BY <1>1, <1>3, <1>6, <2>1, <2>2, <2>3
  <2>4. CASE k \notin ending
    BY <1>1, <1>3, <2>1, <2>2, <2>4
  <2> QED BY <2>3, <2>4
<1>12. ASSUME NEW k \in Ids
       PROVE  ChannelEnds(k)' = ChannelEnds(k)
  BY <1>1, <1>4, <1>5 DEF ChannelEnds
<1>13. ASSUME NEW k \in Ids, Compute(k), stage[k] \in {"ARRAY", "DONE"}
       PROVE  ArrayEnds(k)' = ArrayEnds(k)
  <2>1. \A j \in 1..k - 1 : Compute(j) /\ SamePlane(j, k) => j \in Ids /\ j \notin ending
    BY <1>1, <1>5, <1>13 DEF IInv, InOrder
  <2>2. \A j \in 1..k - 1 :
          Compute(j) /\ SamePlane(j, k) => times'[j].array_end = times[j].array_end
    BY <1>1, <2>1
  <2> QED BY <1>1, <1>4, <2>2 DEF ArrayEnds
<1>14. StartsAtLastEnd'
  <2> SUFFICES ASSUME NEW k \in Ids
               PROVE  /\ stage'[k] # "QUEUED" =>
                           /\ times'[k].channel_start \in ChannelEnds(k)'
                           /\ \A e \in ChannelEnds(k)' : e <= times'[k].channel_start
                      /\ Compute(k) /\ stage'[k] \in {"ARRAY", "DONE"} =>
                           /\ times'[k].array_start \in ArrayEnds(k)'
                           /\ \A e \in ArrayEnds(k)' : e <= times'[k].array_start
    BY <1>2, <1>4 DEF StartsAtLastEnd
  <2>1. /\ stage'[k] # "QUEUED" => stage[k] # "QUEUED"
        /\ stage'[k] \in {"ARRAY", "DONE"} => stage[k] \in {"ARRAY", "DONE"}
    BY <1>1
  <2> QED BY <1>1, <1>12, <1>13, <2>1 DEF IInv, StartsAtLastEnd
<1>15. NoCycleLost'
  <2> SUFFICES ASSUME NEW k \in Ids
               PROVE  /\ stage'[k] = "QUEUED" =>
                           \/ channel_active[ChannelOf(commands[k])] # None
                           \/ cycle + 1 \in ChannelEnds(k)'
                      /\ stage'[k] = "WAIT_ARRAY" =>
                           \/ plane_active'[PlaneOf(commands[k])] # None
                           \/ cycle + 1 \in ArrayEnds(k)'
    BY <1>2, <1>4 DEF NoCycleLost
  <2>1. stage'[k] = "QUEUED" => \/ channel_active[ChannelOf(commands[k])] # None
                                \/ cycle + 1 \in ChannelEnds(k)'
    BY <1>1, <1>4, <1>12 DEF IInv, NoCycleLost
  <2>2. ASSUME stage'[k] = "WAIT_ARRAY", plane_active'[PlaneOf(commands[k])] = None
        PROVE  cycle + 1 \in ArrayEnds(k)'
    <3>1. stage[k] = "WAIT_ARRAY" /\ k \notin ending /\ Compute(k)
      BY <1>1, <1>3, <2>2, IdFacts DEF IInv, OwnersExact, Compute
    <3>2. CASE plane_active[PlaneOf(commands[k])] = None
      <4>1. cycle + 1 \in ArrayEnds(k)
        BY <1>4, <3>1, <3>2 DEF IInv, NoCycleLost
      <4>2. CASE cycle + 1 = times[k].channel_end
        BY <1>1, <4>2 DEF ArrayEnds
      <4>3. ASSUME NEW j \in 1..k - 1, Compute(j), SamePlane(j, k),
                   cycle + 1 = times[j].array_end
            PROVE  cycle + 1 \in ArrayEnds(k)'
        <5>1. j \in Ids /\ times'[j].array_end = cycle + 1
          BY <1>1, <1>5, <4>3
        <5> QED BY <1>4, <4>3, <5>1 DEF ArrayEnds
      <4> QED BY <4>1, <4>2, <4>3 DEF ArrayEnds
    <3>3. CASE plane_active[PlaneOf(commands[k])] # None
      <4>1. PICK j \in ending : j = plane_active[PlaneOf(commands[k])]
        BY <1>1, <1>3, <2>2, <3>3
      <4>2. j \in Ids /\ SamePlane(j, k) /\ stage[j] = "ARRAY" /\ Compute(j)
        BY <1>1, <1>3, <1>6, <3>3, <4>1 DEF IInv, ServesItsOwn, SamePlane
      <4>3. ~(k < j)
        BY <3>1, <4>2 DEF IInv, InOrder, SamePlane
      <4>4. j \in 1..k - 1
        BY <1>3, <3>1, <4>2, <4>3
      <4> QED BY <1>1, <1>4, <4>1, <4>2, <4>4 DEF ArrayEnds
    <3> QED BY <3>2, <3>3
  <2> QED BY <2>1, <2>2
<1>16. Bounded'
  <2>1. ChannelMost' = ChannelMost /\ ArrayMost' = ArrayMost
    BY <1>2 DEF ChannelMost, ArrayMost
  <2> QED BY <1>1, <1>2, <1>4, <2>1 DEF IInv, Bounded
<1>17. timing' \in CycleTimings /\ Len(commands') <= IFC_SSDSIM_MAX_COMMANDS
  BY <1>2 DEF IInv
<1>18. Verdict'
  <2>1. pc' = "ok" => done_count' = Len(commands')
    BY <1>1, <1>2 DEF LoopTest
  <2>2. ASSUME pc' = "guard" PROVE FALSE
    <3>1. done_count' # Len(commands) /\ ~(cycle + 1 < GuardLimit)
      BY <1>1, <2>2 DEF LoopTest
    <3>2. \E k \in Ids : stage'[k] # "DONE"
      <4> SUFFICES ASSUME \A k \in Ids : stage'[k] = "DONE" PROVE FALSE
        OBVIOUS
      <4>1. {k \in Ids : stage'[k] = "DONE"} = 1..Len(commands) /\ Len(commands) \in Nat
        BY <1>3, IdFacts
      <4>2. Cardinality(1..Len(commands)) = Len(commands)
        <5>1. Len(commands) \in Int /\ 1 \in Int
          BY <4>1
        <5>2. Cardinality(1..Len(commands))
                = IF 1 > Len(commands) THEN 0 ELSE Len(commands) - 1 + 1
          BY <5>1, FS_Interval
        <5> QED BY <4>1, <5>2
      <4> QED BY <1>1, <3>1, <4>1, <4>2
    <3>3. Unfinished'
      <4>1. \E k \in Ids' : (stage[k] # "DONE")'
        BY <1>2, <3>2
      <4>2. (ChannelNow = cycle)'
        BY <1>2, <1>4
      <4> QED BY <1>1, <1>7, <1>8, <1>10, <1>11, <1>15, <1>16, <1>17, <4>1, <4>2
              DEF Unfinished
    <3>4. (Unfinished => cycle < GuardLimit)'
      BY WithinLimit, PTL
    <3>5. cycle' < GuardLimit
      BY <3>3, <3>4
    <3> QED BY <1>2, <3>1, <3>5
  <2> QED BY <2>1, <2>2 DEF Verdict
<1> QED BY <1>1, <1>7, <1>8, <1>9, <1>10, <1>11, <1>14, <1>15, <1>16, <1>17, <1>18 DEF IInv

(* Every step keeps the invariant.                                         *)
LEMMA StepIInv == IInv /\ [Next]_vars => IInv'
<1> SUFFICES ASSUME IInv, [Next]_vars PROVE IInv'
  OBVIOUS
<1>1. CASE IssuePass
  BY <1>1, IssueKeeps
<1>2. CASE ArrayPass
  BY <1>2, ArrayKeeps
<1>3. CASE ChannelPass
  BY <1>3, ChannelKeeps
<1>4. CASE PlanePass
  BY <1>4, PlaneKeeps
<1>5. CASE UNCHANGED vars
  <2>1. /\ commands' = commands /\ timing' = timing /\ stage' = stage
        /\ remaining_cycles' = remaining_cycles /\ times' = times
        /\ channel_active' = channel_active /\ plane_active' = plane_active
        /\ done_count' = done_count /\ cycle' = cycle /\ pc' = pc
    BY <1>5 DEF vars, recorded
  <2> QED BY <2>1 DEF IInv, TypeOK, OwnersExact, ServesItsOwn, InOrder, RecordedByStage,
            CountdownExact, StartsAtLastEnd, NoCycleLost, Bounded, Verdict, Ids, Channels,
            Planes, Compute, SameChannel, SamePlane, ChannelNow, ChannelEnds, ArrayEnds,
            ChannelMost, ArrayMost
<1> QED BY <1>1, <1>2, <1>3, <1>4, <1>5 DEF Next, Terminated

-----------------------------------------------------------------------------
(* What the invariant says of the schedule.                                *)

(* The invariant says that the schedule is followed.                       *)
LEMMA ScheduleFollows == IInv => OnSchedule
<1> SUFFICES ASSUME IInv PROVE OnSchedule
  OBVIOUS
<1>1. TypeOK /\ \A k \in Ids : \A j \in 1..k - 1 : j \in Ids /\ j < k
  BY IdFacts DEF IInv
<1>2. ASSUME NEW k \in Ids
      PROVE  FollowsRule(commands, timing, times, k, 0)
  <2> DEFINE t == times[k]
  <2>1. /\ times[k].channel_start # -1 <=> stage[k] # "QUEUED"
        /\ times[k].channel_end # -1 <=> stage[k] \notin {"QUEUED", "CHANNEL"}
        /\ times[k].array_start # -1 <=> Compute(k) /\ stage[k] \in {"ARRAY", "DONE"}
        /\ times[k].array_end # -1 <=> Compute(k) /\ stage[k] = "DONE"
        /\ times[k].complete # -1 <=> stage[k] = "DONE"
        /\ stage[k] = "DONE" => times[k].complete = IF Compute(k) THEN times[k].array_end
                                                    ELSE times[k].channel_end
    BY DEF IInv, RecordedByStage
  <2>2. /\ t.channel_end # -1 => t.channel_end = t.channel_start + ChannelTime(commands[k], timing)
        /\ t.array_end # -1 => t.array_end = t.array_start + timing.array
    BY DEF IInv, CountdownExact
  <2>3. ASSUME t.channel_start # -1
        PROVE  t.channel_start = ChannelStart(commands, times, k, 0)
    <3>1. t.channel_start \in ChannelEnds(k) /\ \A e \in ChannelEnds(k) : e <= t.channel_start
      BY <2>1, <2>3 DEF IInv, StartsAtLastEnd
    <3>2. ChannelEnds(k) \subseteq Int
      BY <1>1, RowFacts DEF ChannelEnds
    <3>3. Latest(ChannelEnds(k)) = t.channel_start
      <4> HIDE DEF t
      <4> QED BY <3>1, <3>2, LatestIs
    <3> QED BY <3>3 DEF ChannelStart, ChannelEnds, SameChannel
  <2>4. ASSUME t.array_start # -1
        PROVE  t.array_start = ArrayStart(commands, times, k)
    <3>1. t.array_start \in ArrayEnds(k) /\ \A e \in ArrayEnds(k) : e <= t.array_start
      BY <2>1, <2>4 DEF IInv, StartsAtLastEnd
    <3>2. ArrayEnds(k) \subseteq Int
      BY <1>1, RowFacts DEF ArrayEnds
    <3>3. Latest(ArrayEnds(k)) = t.array_start
      <4> HIDE DEF t
      <4> QED BY <3>1, <3>2, LatestIs
    <3> QED BY <3>3 DEF ArrayStart, ArrayEnds, SamePlane, Compute
  <2>5. ASSUME t.channel_start # -1
        PROVE  \A j \in 1..k - 1 : ChannelOf(commands[j]) = ChannelOf(commands[k])
                 => times[j].channel_end # -1
    BY <1>1, <2>1, <2>5 DEF IInv, InOrder, SameChannel, RecordedByStage
  <2>6. t.array_start # -1 => commands[k].opcode = "READ_COMPUTE"
    BY <2>1 DEF Compute
  <2>7. t.complete # -1 =>
          LET end == IF commands[k].opcode = "READ_COMPUTE" THEN t.array_end ELSE t.channel_end
          IN  t.complete = end /\ end # -1
    BY <2>1 DEF Compute
  <2> QED BY <2>2, <2>3, <2>4, <2>5, <2>6, <2>7 DEF FollowsRule
<1>3. ASSUME pc = "ok"
      PROVE  \A k \in Ids : times[k].complete # -1
  <2> DEFINE done == {k \in Ids : stage[k] = "DONE"}
  <2>1. Cardinality(done) = Len(commands) /\ Len(commands) \in Nat /\ Ids = 1..Len(commands)
    BY <1>1, <1>3, IdFacts DEF IInv, Verdict, OwnersExact
  <2>2. Cardinality(Ids) = Len(commands) /\ IsFiniteSet(Ids)
    <3>1. Len(commands) \in Int /\ 1 \in Int
      BY <2>1
    <3>2. /\ IsFiniteSet(1..Len(commands))
          /\ Cardinality(1..Len(commands))
               = IF 1 > Len(commands) THEN 0 ELSE Len(commands) - 1 + 1
      BY <3>1, FS_Interval
    <3> QED BY <2>1, <3>2
  <2>3. done = Ids
    <3>1. done \in SUBSET Ids
      OBVIOUS
    <3> HIDE DEF done
    <3> QED BY <2>1, <2>2, <3>1, FS_Subset
  <2> QED BY <2>3 DEF IInv, RecordedByStage
<1> QED BY <1>2, <1>3 DEF IInv, Verdict, OnSchedule

-----------------------------------------------------------------------------
(* The invariant holds in every reachable state.                           *)
THEOREM Invariance == Spec => []IInv
<1> QED BY InitIInv, StepIInv, PTL DEF Spec

(* Every variable keeps its type in every pass.                            *)
THEOREM TypeCorrect == Spec => []TypeOK
<1>1. IInv => TypeOK
  BY DEF IInv
<1> QED BY <1>1, Invariance, PTL

(* The channel and plane tables agree with the stages of the commands at   *)
(* every pass, so no resource serves two and no command is lost, and       *)
(* done_count is the number of finished commands.                          *)
THEOREM TablesExact == Spec => []OwnersExact
<1>1. IInv => OwnersExact
  BY DEF IInv
<1> QED BY <1>1, Invariance, PTL

(* Counting cycles down records the busy-until schedule, every command is  *)
(* complete when the loop ends, and it never ends by its limit.            *)
THEOREM ScheduleCorrect == Spec => []OnSchedule
<1> QED BY ScheduleFollows, Invariance, PTL

-----------------------------------------------------------------------------
(* List schedules.                                                         *)

ListInv == rows \in Seq(List!Row) /\ List!Exclusive

LEMMA ListStep == ListInv /\ [List!Next]_rows => ListInv'
<1> SUFFICES ASSUME ListInv, [List!Next]_rows PROVE ListInv'
  OBVIOUS
<1>1. CASE UNCHANGED rows
  BY <1>1 DEF ListInv, List!Exclusive
<1>2. CASE List!Next
  <2> DEFINE row == rows'[Len(rows')]
  <2>1. rows' = Append(rows, row) /\ row \in List!Row /\ List!OnTime(rows, row)
    BY <1>2 DEF List!Next
  <2>2. rows \in Seq(List!Row) /\ rows' \in Seq(List!Row)
    BY <2>1 DEF ListInv
  <2>3. /\ Len(rows') = Len(rows) + 1 /\ rows'[Len(rows) + 1] = row
        /\ \A k \in 1..Len(rows) : rows'[k] = rows[k]
    BY <2>1, <2>2
  <2> HIDE DEF row
  <2>4. ASSUME NEW i \in DOMAIN rows, List!Conflict(rows[i], row)
        PROVE  rows[i].end <= row.start
    <3>1. PICK earliest \in {0} \cup List!WaitsFor(rows, row) :
            /\ \A end \in List!WaitsFor(rows, row) : end <= earliest
            /\ row.start >= earliest
      BY <2>1 DEF List!OnTime
    <3>2. rows[i].end \in List!WaitsFor(rows, row)
      BY <2>4 DEF List!WaitsFor
    <3>3. List!WaitsFor(rows, row) \subseteq Nat
      <4>1. \A j \in DOMAIN rows : rows[j] \in List!Row
        BY <2>2
      <4>2. \A j \in DOMAIN rows : rows[j].end \in Nat
        BY <4>1 DEF List!Row
      <4> QED BY <4>2 DEF List!WaitsFor
    <3>4. earliest \in Nat /\ rows[i].end \in Nat /\ row.start \in Nat
      BY <3>1, <3>2, <3>3, <2>1 DEF List!Row
    <3> QED BY <3>1, <3>2, <3>4
  <2>5. List!Exclusive'
    <3> SUFFICES ASSUME NEW i \in DOMAIN rows', NEW j \in DOMAIN rows',
                        i < j, List!Conflict(rows'[i], rows'[j])
                 PROVE  rows'[i].end <= rows'[j].start
      BY DEF List!Exclusive
    <3>1. i \in 1..Len(rows) /\ j \in 1..Len(rows) + 1 /\ rows'[i] = rows[i]
      BY <2>2, <2>3
    <3>2. CASE j = Len(rows) + 1
      BY <3>1, <3>2, <2>2, <2>3, <2>4
    <3>3. CASE j # Len(rows) + 1
      BY <3>1, <3>3, <2>2, <2>3 DEF ListInv, List!Exclusive
    <3> QED BY <3>2, <3>3
  <2> QED BY <2>2, <2>5 DEF ListInv
<1> QED BY <1>1, <1>2

(* In every list schedule, stages that share a resource never overlap.     *)
THEOREM Exclusivity == List!Spec => []List!Exclusive
<1>1. List!Init => ListInv
  BY DEF List!Init, ListInv, List!Exclusive
<1>2. ListInv => List!Exclusive
  BY DEF ListInv
<1> QED BY <1>1, <1>2, ListStep, PTL DEF List!Spec

-----------------------------------------------------------------------------
(* The sample schedule.                                                    *)

(* The tile of a command of the stream from its group and its place in it. *)
TileIn(p, group, offset) ==
  IF offset < IFC_READ_SLICES_PER_REQUEST * p.channels
  THEN group * IFC_READ_SLICES_PER_REQUEST + offset \div p.channels
  ELSE (group + 1) * IFC_READ_SLICES_PER_REQUEST - 1

(* Within a group the tiles ascend, from the first of the group's tiles to *)
(* the last.                                                               *)
LEMMA TilesOfGroup ==
  ASSUME NEW p \in Platform, PlatformSupported(p), NEW g \in Nat, NEW o \in Nat
  PROVE  /\ TileIn(p, g, o) \in Nat
         /\ g * IFC_READ_SLICES_PER_REQUEST <= TileIn(p, g, o)
         /\ TileIn(p, g, o) <= (g + 1) * IFC_READ_SLICES_PER_REQUEST - 1
         /\ \A i \in Nat : i <= o => TileIn(p, g, i) <= TileIn(p, g, o)
<1> DEFINE S == IFC_READ_SLICES_PER_REQUEST
           C == p.channels
           base == g * S
<1>1. S \in Nat \ {0} /\ C \in Nat \ {0}
  BY LimitsAssumption DEF PlatformSupported
<1> HIDE DEF S, C
<1>2. base \in Nat /\ (g + 1) * S = base + S
  BY <1>1
<1> HIDE DEF base
<1>3. ASSUME NEW i \in Nat, i < S * C
      PROVE  i \div C \in Nat /\ i \div C <= S - 1
  <2>1. PICK q \in Nat : q = i \div C
    BY <1>1, DivMod
  <2>2. C * q <= i
    BY <1>1, <2>1
  <2>3. ASSUME S <= q PROVE FALSE
    <3>1. CASE S = q
      BY <1>1, <1>3, <2>2, <3>1
    <3>2. CASE S < q
      <4>1. C * S + C <= C * q
        BY <1>1, <3>2, NextMultiple
      <4>2. C * S = S * C /\ C * S \in Nat /\ C * q \in Nat
        BY <1>1
      <4> QED BY <1>1, <1>3, <2>2, <4>1, <4>2
    <3> QED BY <1>1, <2>1, <2>3, <3>1, <3>2
  <2> QED BY <1>1, <2>1, <2>3
<1>4. \A i \in Nat : TileIn(p, g, i) = IF i < S * C THEN base + i \div C ELSE base + S - 1
  BY <1>1, <1>2 DEF TileIn, S, C, base
<1>5. \A i \in Nat : TileIn(p, g, i) \in Nat /\ base <= TileIn(p, g, i)
                     /\ TileIn(p, g, i) <= base + S - 1
  <2> SUFFICES ASSUME NEW i \in Nat
               PROVE  TileIn(p, g, i) \in Nat /\ base <= TileIn(p, g, i)
                      /\ TileIn(p, g, i) <= base + S - 1
    OBVIOUS
  <2>1. CASE i < S * C
    <3>1. i \div C \in Nat /\ i \div C <= S - 1 /\ TileIn(p, g, i) = base + i \div C
      BY <1>3, <1>4, <2>1
    <3> QED BY <1>1, <1>2, <3>1
  <2>2. CASE ~(i < S * C)
    BY <1>1, <1>2, <1>4, <2>2
  <2> QED BY <2>1, <2>2
<1>6. ASSUME NEW i \in Nat, i <= o
      PROVE  TileIn(p, g, i) <= TileIn(p, g, o)
  <2>1. CASE o < S * C
    <3>1. i < S * C
      <4>1. S * C \in Int
        BY <1>1
      <4> QED BY <1>6, <2>1, <4>1
    <3>2. i \div C \in Nat /\ o \div C \in Nat /\ i \div C <= o \div C
      BY <1>1, <1>6, DivMod, DivMonotone
    <3>3. TileIn(p, g, i) = base + i \div C /\ TileIn(p, g, o) = base + o \div C
      BY <1>4, <2>1, <3>1
    <3> QED BY <1>2, <3>2, <3>3
  <2>2. CASE ~(o < S * C)
    BY <1>4, <1>5, <2>2
  <2> QED BY <2>1, <2>2
<1>7. /\ TileIn(p, g, o) \in Nat /\ g * S <= TileIn(p, g, o)
      /\ TileIn(p, g, o) <= (g + 1) * S - 1
  <2>1. base = g * S
    BY DEF base
  <2> QED BY <1>1, <1>2, <1>5, <2>1
<1> QED BY <1>6, <1>7 DEF S

(* The commands of the stream come tile by tile.                           *)
LEMMA TilesAscend ==
  ASSUME NEW p \in Platform, PlatformSupported(p),
         NEW m \in Nat \ {0}, NEW n \in Nat \ {0}, m <= n
  PROVE  /\ Tile(CommandAt(p, m)) \in Nat
         /\ Tile(CommandAt(p, m)) <= Tile(CommandAt(p, n))
<1> DEFINE S == IFC_READ_SLICES_PER_REQUEST
           d == 2 * (S * p.channels)
<1>1. S \in Nat \ {0} /\ p.channels \in Nat \ {0} /\ d \in Nat \ {0}
  BY LimitsAssumption DEF PlatformSupported
<1>2. ASSUME NEW k \in Nat \ {0}
      PROVE  Tile(CommandAt(p, k)) = TileIn(p, (k - 1) \div d, (k - 1) % d)
  BY DEF Tile, CommandAt, TileIn
<1> HIDE DEF d
<1>3. PICK a \in Nat, b \in Nat : a = m - 1 /\ b = n - 1
  OBVIOUS
<1>4. PICK g \in Nat, h \in Nat, o \in Nat, q \in Nat :
        /\ g = a \div d /\ h = b \div d /\ o = a % d /\ q = b % d
        /\ a = d * g + o /\ b = d * h + q
  <2>1. /\ a \div d \in Nat /\ b \div d \in Nat /\ a % d \in Nat /\ b % d \in Nat
    BY <1>1, DivMod
  <2>2. a = d * (a \div d) + (a % d) /\ b = d * (b \div d) + (b % d)
    BY <1>1
  <2> USE <2>1
  <2> WITNESS a \div d \in Nat, b \div d \in Nat, a % d \in Nat, b % d \in Nat
  <2> QED BY <2>2
<1>5. g <= h
  BY <1>1, <1>3, <1>4, DivMonotone
<1>6. Tile(CommandAt(p, m)) = TileIn(p, g, o) /\ Tile(CommandAt(p, n)) = TileIn(p, h, q)
  BY <1>2, <1>3, <1>4
<1>7. CASE g = h
  <2>1. o <= q
    <3>1. d * g \in Nat /\ a <= b
      BY <1>1, <1>3
    <3> QED BY <1>4, <1>7, <3>1
  <2> QED BY <1>6, <1>7, <2>1, TilesOfGroup
<1>8. CASE g < h
  <2>1. S * g + S <= S * h /\ S * g \in Nat /\ S * h \in Nat
    BY <1>1, <1>8, NextMultiple
  <2>2. (g + 1) * S = S * g + S /\ h * S = S * h
    BY <1>1
  <2>3. TileIn(p, g, o) \in Nat /\ TileIn(p, g, o) <= (g + 1) * S - 1
        /\ h * S <= TileIn(p, h, q) /\ TileIn(p, h, q) \in Nat
    BY TilesOfGroup
  <2> QED BY <1>1, <1>6, <2>1, <2>2, <2>3
<1> QED BY <1>5, <1>7, <1>8

-----------------------------------------------------------------------------
(* The invariant of the sample schedule.                                   *)

SampleTypes ==
  /\ commands \in Seq(Command) /\ timing \in ServiceTimes
  /\ channel_busy_until \in [Channels -> Nat] /\ plane_busy_until \in [Planes -> Nat]
  /\ issue_ns \in Seq(Nat) /\ times \in Seq(TraceRow)
  /\ Len(issue_ns) = Len(times) /\ Len(times) <= Len(commands)

(* The stream comes tile by tile.                                          *)
StreamByTile ==
  \A j, k \in DOMAIN commands :
    Tile(commands[k]) \in Nat /\ (j <= k => Tile(commands[j]) <= Tile(commands[k]))

(* A command placed is complete when its channel is done, or its array.    *)
RowsComplete ==
  \A k \in DOMAIN times :
    LET t == times[k]
    IN  /\ t.channel_start \in Nat /\ t.channel_end \in Nat
        /\ Compute(k) => /\ t.array_start \in Nat /\ t.array_end \in Nat
                         /\ t.channel_end <= t.array_end /\ t.complete = t.array_end
        /\ ~Compute(k) => /\ t.array_start = -1 /\ t.array_end = -1
                          /\ t.complete = t.channel_end

(* The ends recorded of a channel, of a plane, and of all commands.        *)
ChannelEndsOf(r) ==
  {0} \cup {times[j].channel_end : j \in {j \in DOMAIN times : ChannelOf(commands[j]) = r}}

ArrayEndsOf(r) ==
  {0} \cup {times[j].array_end :
              j \in {j \in DOMAIN times : Compute(j) /\ PlaneOf(commands[j]) = r}}

Completes == {0} \cup {times[j].complete : j \in DOMAIN times}

GreatestOf(T, t) == t \in T /\ \A u \in T : u <= t

(* The busy tables hold the last of the ends.                              *)
BusyExact ==
  /\ \A r \in Channels : GreatestOf(ChannelEndsOf(r), channel_busy_until[r])
  /\ \A r \in Planes : GreatestOf(ArrayEndsOf(r), plane_busy_until[r])

SampleInv ==
  /\ SampleTypes /\ StreamByTile /\ RowsComplete /\ BusyExact
  /\ \E e \in Nat : GreatestOf(Completes, e)
  /\ RowsOnTime /\ TilesInTurn

-----------------------------------------------------------------------------
(* The invariant is kept.                                                  *)

(* The greatest number of a set is what Latest chooses.                    *)
LEMMA GreatestIsLatest ==
  ASSUME NEW T, NEW t, GreatestOf(T, t), T \subseteq Int
  PROVE  Latest(T) = t
BY LatestIs DEF GreatestOf

(* What the types say of the commands and rows.                            *)
LEMMA SampleFacts ==
  ASSUME SampleTypes, RowsComplete
  PROVE  /\ Len(times) \in Nat /\ Len(commands) \in Nat
         /\ DOMAIN times = 1..Len(times) /\ DOMAIN issue_ns = 1..Len(times)
         /\ DOMAIN commands = 1..Len(commands) /\ DOMAIN times \subseteq DOMAIN commands
         /\ \A k \in DOMAIN commands :
              /\ commands[k].opcode \in {"READ_COMPUTE", "READ_SLICE"}
              /\ ChannelOf(commands[k]) \in Channels /\ PlaneOf(commands[k]) \in Planes
         /\ timing.array \in Nat \ {0}
         /\ \A k : ChannelTime(commands[k], timing) \in Nat \ {0}
         /\ \A k \in DOMAIN times : issue_ns[k] \in Nat /\ times[k].complete \in Nat
<1>1. commands \in Seq(Command) /\ \A c \in Command : c.opcode \in {"READ_COMPUTE", "READ_SLICE"}
  BY DEF SampleTypes, Command
<1>2. /\ Len(commands) \in Nat /\ DOMAIN commands = 1..Len(commands)
      /\ \A k \in DOMAIN commands : commands[k].opcode \in {"READ_COMPUTE", "READ_SLICE"}
  <2> HIDE DEF Command
  <2> QED BY <1>1
<1>3. /\ Len(times) \in Nat /\ DOMAIN times = 1..Len(times)
      /\ DOMAIN issue_ns = 1..Len(times)
      /\ \A k \in DOMAIN issue_ns : issue_ns[k] \in Nat
      /\ Len(times) <= Len(commands)
  BY DEF SampleTypes
<1>4. /\ timing.array \in Nat \ {0}
      /\ \A k : ChannelTime(commands[k], timing) \in Nat \ {0}
  BY DEF SampleTypes, ServiceTimes, ChannelTime
<1>5. \A k \in DOMAIN times : times[k].complete \in Nat
  BY DEF RowsComplete
<1>6. \A k \in DOMAIN commands :
        ChannelOf(commands[k]) \in Channels /\ PlaneOf(commands[k]) \in Planes
  BY DEF Channels, Planes
<1>7. DOMAIN times \subseteq DOMAIN commands
  BY <1>2, <1>3
<1>8. \A k \in DOMAIN times : issue_ns[k] \in Nat
  BY <1>3
<1> QED BY <1>2, <1>3, <1>4, <1>5, <1>6, <1>7, <1>8

(* The latest of the busy times is the latest completion.                  *)
LEMMA BusyCompletes ==
  ASSUME SampleTypes, RowsComplete, BusyExact, NEW e \in Nat, GreatestOf(Completes, e)
  PROVE  MaxComplete = e
<1> DEFINE Busy == {0} \cup {channel_busy_until[r] : r \in Channels}
                       \cup {plane_busy_until[r] : r \in Planes}
<1>1. Busy \subseteq Nat
  BY DEF SampleTypes
<1>2. /\ \A j \in DOMAIN times : times[j].complete <= e
      /\ e = 0 \/ \E j \in DOMAIN times : e = times[j].complete
  BY DEF GreatestOf, Completes
<1>3. \A j \in DOMAIN times :
        /\ times[j].channel_end \in Nat /\ times[j].channel_end <= times[j].complete
        /\ Compute(j) => times[j].array_end = times[j].complete
        /\ ~Compute(j) => times[j].channel_end = times[j].complete
        /\ times[j].complete \in Nat
        /\ ChannelOf(commands[j]) \in Channels /\ PlaneOf(commands[j]) \in Planes
  BY SampleFacts DEF RowsComplete
<1>4. ASSUME NEW r \in Channels
      PROVE  channel_busy_until[r] <= e
  <2>1. channel_busy_until[r] \in ChannelEndsOf(r) /\ channel_busy_until[r] \in Nat
    BY DEF BusyExact, GreatestOf, SampleTypes
  <2>2. CASE channel_busy_until[r] = 0
    BY <2>2
  <2>3. ASSUME NEW j \in DOMAIN times, channel_busy_until[r] = times[j].channel_end
        PROVE  channel_busy_until[r] <= e
    BY <1>2, <1>3, <2>3
  <2> QED BY <2>1, <2>2, <2>3 DEF ChannelEndsOf
<1>5. ASSUME NEW r \in Planes
      PROVE  plane_busy_until[r] <= e
  <2>1. plane_busy_until[r] \in ArrayEndsOf(r) /\ plane_busy_until[r] \in Nat
    BY DEF BusyExact, GreatestOf, SampleTypes
  <2>2. CASE plane_busy_until[r] = 0
    BY <2>2
  <2>3. ASSUME NEW j \in DOMAIN times, Compute(j), plane_busy_until[r] = times[j].array_end
        PROVE  plane_busy_until[r] <= e
    BY <1>2, <1>3, <2>3
  <2> QED BY <2>1, <2>2, <2>3 DEF ArrayEndsOf
<1>6. \A b \in Busy : b <= e
  BY <1>4, <1>5
<1>7. \E b \in Busy : e <= b
  <2>1. CASE e = 0
    BY <2>1
  <2>2. ASSUME NEW j \in DOMAIN times, e = times[j].complete
        PROVE  \E b \in Busy : e <= b
    <3>1. CASE Compute(j)
      <4>1. plane_busy_until[PlaneOf(commands[j])] \in Busy
        BY <1>3
      <4>2. times[j].array_end \in ArrayEndsOf(PlaneOf(commands[j]))
        BY <3>1 DEF ArrayEndsOf
      <4>3. e <= plane_busy_until[PlaneOf(commands[j])]
        BY <1>3, <2>2, <3>1, <4>2 DEF BusyExact, GreatestOf
      <4> QED BY <4>1, <4>3
    <3>2. CASE ~Compute(j)
      <4>1. channel_busy_until[ChannelOf(commands[j])] \in Busy
        BY <1>3
      <4>2. times[j].channel_end \in ChannelEndsOf(ChannelOf(commands[j]))
        BY DEF ChannelEndsOf
      <4>3. e <= channel_busy_until[ChannelOf(commands[j])]
        BY <1>3, <2>2, <3>2, <4>2 DEF BusyExact, GreatestOf
      <4> QED BY <4>1, <4>3
    <3> QED BY <3>1, <3>2
  <2> QED BY <1>2, <2>1, <2>2
<1>8. e \in Busy
  <2>1. PICK b \in Busy : e <= b
    BY <1>7
  <2>2. b <= e /\ b \in Nat
    BY <1>1, <1>6, <2>1
  <2>3. b = e
    BY <2>1, <2>2
  <2> QED BY <2>1, <2>3
<1>9. GreatestOf(Busy, e)
  BY <1>6, <1>8 DEF GreatestOf
<1>10. Latest(Busy) = e
  <2>1. Busy \subseteq Int
    BY <1>1
  <2> HIDE DEF Busy
  <2> QED BY <1>9, <2>1, GreatestIsLatest
<1> QED BY <1>10 DEF MaxComplete

(* The invariant holds when the controller starts.                         *)
LEMMA SampleInit == SampleScheduleInit => SampleInv
<1> SUFFICES ASSUME SampleScheduleInit PROVE SampleInv
  OBVIOUS
<1>1. /\ channel_busy_until = [r \in Channels |-> 0] /\ plane_busy_until = [r \in Planes |-> 0]
      /\ issue_ns = << >> /\ times = << >> /\ timing \in ServiceTimes
  BY SampleScheduleAssumption DEF SampleScheduleInit
<1>2. commands \in Seq(Command) /\ StreamByTile
  <2>1. PICK p \in Platforms :
          IF PlatformSupported(p)
          THEN commands = BuildCommands(p) /\ pc = "submit"
          ELSE commands = << >> /\ pc = "failed"
    BY DEF SampleScheduleInit
  <2>2. p \in Platform
    BY PlatformsAssumption
  <2>3. CASE PlatformSupported(p)
    <3>1. /\ commands \in Seq(Command) /\ CommandCount(p) \in Nat
          /\ commands = [n \in 1..CommandCount(p) |-> CommandAt(p, n)]
      BY <2>1, <2>2, <2>3, BuildCommandsType DEF BuildCommands
    <3>2. DOMAIN commands = 1..CommandCount(p)
          /\ \A n \in 1..CommandCount(p) : commands[n] = CommandAt(p, n) /\ n \in Nat \ {0}
      BY <3>1
    <3>3. StreamByTile
      <4> SUFFICES ASSUME NEW j \in DOMAIN commands, NEW k \in DOMAIN commands
                   PROVE  /\ Tile(commands[k]) \in Nat
                          /\ j <= k => Tile(commands[j]) <= Tile(commands[k])
        BY DEF StreamByTile
      <4> HIDE DEF Tile
      <4> QED BY <2>2, <2>3, <3>2, TilesAscend
    <3> QED BY <3>1, <3>3
  <2>4. CASE ~PlatformSupported(p)
    BY <2>1, <2>4 DEF StreamByTile
  <2> QED BY <2>3, <2>4
<1>3. SampleTypes
  <2>1. Len(commands) \in Nat
    BY <1>2
  <2> QED BY <1>1, <1>2, <2>1 DEF SampleTypes
<1>4. DOMAIN times = {}
  BY <1>1
<1>5. RowsComplete /\ RowsOnTime /\ TilesInTurn
  BY <1>4 DEF RowsComplete, RowsOnTime, TilesInTurn
<1>6. BusyExact
  BY <1>1, <1>4 DEF BusyExact, GreatestOf, ChannelEndsOf, ArrayEndsOf
<1>7. GreatestOf(Completes, 0)
  BY <1>4 DEF GreatestOf, Completes
<1> QED BY <1>2, <1>3, <1>5, <1>6, <1>7 DEF SampleInv

(* The row of the next command.                                            *)
LEMMA PlaceFacts ==
  ASSUME SampleTypes, RowsComplete, NEW k \in DOMAIN commands, NEW issue \in Nat
  PROVE  LET c == commands[k]
             row == Place(c, issue)
         IN  /\ row \in TraceRow
             /\ row.channel_start = Max2(issue, channel_busy_until[ChannelOf(c)])
             /\ row.channel_start \in Nat
             /\ row.channel_end = row.channel_start + ChannelTime(c, timing)
             /\ Compute(k) => /\ row.array_start
                                   = Max2(row.channel_end, plane_busy_until[PlaneOf(c)])
                              /\ row.array_end = row.array_start + timing.array
                              /\ row.complete = row.array_end
             /\ ~Compute(k) => /\ row.array_start = -1 /\ row.array_end = -1
                               /\ row.complete = row.channel_end
<1> DEFINE c == commands[k]
           start == Max2(issue, channel_busy_until[ChannelOf(c)])
           end   == start + ChannelTime(c, timing)
           read  == Max2(end, plane_busy_until[PlaneOf(c)])
<1>1. /\ ChannelOf(c) \in Channels /\ PlaneOf(c) \in Planes
      /\ ChannelTime(c, timing) \in Nat \ {0} /\ timing.array \in Nat \ {0}
      /\ Compute(k) <=> c.opcode # "READ_SLICE"
  BY SampleFacts DEF Compute
<1>2. channel_busy_until[ChannelOf(c)] \in Nat /\ plane_busy_until[PlaneOf(c)] \in Nat
  BY <1>1 DEF SampleTypes
<1>3. start \in Nat
  BY <1>2 DEF Max2
<1>4. end \in Nat
  <2> HIDE DEF start
  <2> QED BY <1>1, <1>3
<1>5. read \in Nat /\ read + timing.array \in Nat
  <2> HIDE DEF end
  <2>1. read \in Nat
    BY <1>2, <1>4 DEF Max2
  <2> HIDE DEF read
  <2> QED BY <1>1, <2>1
<1>6. Place(c, issue) =
        IF c.opcode = "READ_SLICE"
        THEN [channel_start |-> start, channel_end |-> end, array_start |-> -1,
              array_end |-> -1, complete |-> end]
        ELSE [channel_start |-> start, channel_end |-> end, array_start |-> read,
              array_end |-> read + timing.array, complete |-> read + timing.array]
  BY DEF Place
<1> HIDE DEF start, end, read
<1>7. CASE c.opcode = "READ_SLICE"
  <2>1. LET row == [channel_start |-> start, channel_end |-> end, array_start |-> -1,
                    array_end |-> -1, complete |-> end]
        IN  row \in TraceRow
    BY <1>3, <1>4 DEF TraceRow, Fields
  <2> QED BY <1>1, <1>3, <1>6, <1>7, <2>1 DEF start, end
<1>8. CASE c.opcode # "READ_SLICE"
  <2>1. LET row == [channel_start |-> start, channel_end |-> end, array_start |-> read,
                    array_end |-> read + timing.array, complete |-> read + timing.array]
        IN  row \in TraceRow
    BY <1>3, <1>4, <1>5 DEF TraceRow, Fields
  <2> QED BY <1>1, <1>3, <1>6, <1>8, <2>1 DEF start, end, read
<1> QED BY <1>7, <1>8

(* A command is placed after those on its channel, and on its plane.       *)
LEMMA SampleSubmit ==
  ASSUME SampleInv, Submit
  PROVE  SampleInv'
<1> DEFINE n == Len(times)
           issue == IssueTime(n + 1)
           row == Place(commands[n + 1], issue)
<1>1. SampleTypes /\ StreamByTile /\ RowsComplete /\ BusyExact /\ RowsOnTime /\ TilesInTurn
  BY DEF SampleInv
<1>2. PICK e \in Nat : GreatestOf(Completes, e)
  BY DEF SampleInv
<1>3. /\ n \in Nat /\ n < Len(commands) /\ n + 1 \in DOMAIN commands
      /\ DOMAIN times = 1..n /\ DOMAIN issue_ns = 1..n
  BY <1>1, SampleFacts DEF Submit
<1>4. PICK k \in DOMAIN commands : k = n + 1
  BY <1>3
<1>5. MaxComplete = e
  BY <1>1, <1>2, BusyCompletes
<1>6. issue \in Nat
  <2>1. \A j \in 1..n : issue_ns[j] \in Nat
    BY <1>1, <1>3, SampleFacts
  <2>2. CASE k > 1 /\ Tile(commands[k]) = Tile(commands[k - 1])
    <3>1. k - 1 \in 1..n
      <4> HIDE DEF n
      <4> QED BY <1>3, <1>4, <2>2
    <3> QED BY <1>4, <2>1, <2>2, <3>1 DEF IssueTime
  <2>3. CASE ~(k > 1 /\ Tile(commands[k]) = Tile(commands[k - 1]))
    BY <1>4, <1>5, <2>3 DEF IssueTime
  <2> QED BY <2>2, <2>3
<1>7. /\ issue_ns' = Append(issue_ns, issue) /\ times' = Append(times, row)
      /\ plane_busy_until' = PlaneBusyAfter(commands[k], row)
      /\ channel_busy_until' =
           [channel_busy_until EXCEPT ![ChannelOf(commands[k])] = row.channel_end]
      /\ commands' = commands /\ timing' = timing
  BY <1>4 DEF Submit
<1>8. /\ row \in TraceRow
      /\ row.channel_start = Max2(issue, channel_busy_until[ChannelOf(commands[k])])
      /\ row.channel_start \in Nat
      /\ row.channel_end = row.channel_start + ChannelTime(commands[k], timing)
      /\ Compute(k) => /\ row.array_start
                            = Max2(row.channel_end, plane_busy_until[PlaneOf(commands[k])])
                       /\ row.array_end = row.array_start + timing.array
                       /\ row.complete = row.array_end
      /\ ~Compute(k) => /\ row.array_start = -1 /\ row.array_end = -1
                        /\ row.complete = row.channel_end
  <2> HIDE DEF issue
  <2> QED BY <1>1, <1>4, <1>6, PlaceFacts
<1>9. issue = IF k > 1 /\ Tile(commands[k]) = Tile(commands[k - 1]) THEN issue_ns[k - 1] ELSE e
  BY <1>4, <1>5 DEF IssueTime
<1>10. row \in TraceRow /\ issue_ns \in Seq(Nat) /\ times \in Seq(TraceRow) /\ Len(issue_ns) = n
  BY <1>1, <1>8 DEF SampleTypes
<1> HIDE DEF row, issue
<1>11. /\ issue_ns' \in Seq(Nat) /\ times' \in Seq(TraceRow)
       /\ Len(issue_ns') = k /\ Len(times') = k
       /\ DOMAIN times' = DOMAIN times \cup {k} /\ k \notin DOMAIN times
       /\ times'[k] = row /\ issue_ns'[k] = issue
       /\ \A j \in DOMAIN times : times'[j] = times[j] /\ issue_ns'[j] = issue_ns[j]
  BY <1>3, <1>4, <1>6, <1>7, <1>10
<1>12. /\ \A c : Tile(c)' = Tile(c)
       /\ \A j : Compute(j)' <=> Compute(j)
       /\ Channels' = Channels /\ Planes' = Planes
  BY <1>7 DEF Tile, Compute, Channels, Planes
<1>13. /\ ChannelOf(commands[k]) \in Channels /\ PlaneOf(commands[k]) \in Planes
       /\ ChannelTime(commands[k], timing) \in Nat \ {0} /\ timing.array \in Nat \ {0}
       /\ Compute(k) <=> commands[k].opcode # "READ_SLICE"
  BY <1>1, SampleFacts DEF Compute
<1>14. /\ channel_busy_until \in [Channels -> Nat] /\ plane_busy_until \in [Planes -> Nat]
       /\ channel_busy_until[ChannelOf(commands[k])] \in Nat
       /\ plane_busy_until[PlaneOf(commands[k])] \in Nat
  BY <1>1, <1>13 DEF SampleTypes
<1>15. /\ row.channel_end \in Nat /\ row.channel_start <= row.channel_end
       /\ issue <= row.channel_start
       /\ channel_busy_until[ChannelOf(commands[k])] <= row.channel_start
       /\ Compute(k) => /\ row.array_start \in Nat /\ row.array_end \in Nat
                        /\ row.channel_end <= row.array_start
                        /\ row.array_start <= row.array_end
                        /\ plane_busy_until[PlaneOf(commands[k])] <= row.array_start
       /\ row.complete \in Nat
  <2>1. /\ row.channel_end \in Nat /\ row.channel_start <= row.channel_end
        /\ issue <= row.channel_start
        /\ channel_busy_until[ChannelOf(commands[k])] <= row.channel_start
    BY <1>6, <1>8, <1>13, <1>14 DEF Max2
  <2>2. Compute(k) => /\ row.array_start \in Nat /\ row.array_end \in Nat
                      /\ row.channel_end <= row.array_start
                      /\ row.array_start <= row.array_end
                      /\ plane_busy_until[PlaneOf(commands[k])] <= row.array_start
    BY <1>8, <1>13, <1>14, <2>1 DEF Max2
  <2> QED BY <1>8, <2>1, <2>2
<1>16. /\ channel_busy_until' =
            [channel_busy_until EXCEPT ![ChannelOf(commands[k])] = row.channel_end]
       /\ plane_busy_until' =
            IF Compute(k) THEN [plane_busy_until EXCEPT ![PlaneOf(commands[k])] = row.array_end]
            ELSE plane_busy_until
  BY <1>7, <1>13 DEF PlaneBusyAfter
<1>17. SampleTypes'
  <2>1. channel_busy_until' \in [Channels -> Nat] /\ plane_busy_until' \in [Planes -> Nat]
    BY <1>13, <1>14, <1>15, <1>16
  <2>2. k <= Len(commands)
    BY <1>3, <1>4
  <2> QED BY <1>1, <1>7, <1>11, <1>12, <2>1, <2>2 DEF SampleTypes
<1>18. StreamByTile'
  BY <1>1, <1>7, <1>12 DEF StreamByTile
<1>19. RowsComplete'
  <2> SUFFICES ASSUME NEW j \in DOMAIN times'
               PROVE  LET t == times'[j]
                      IN  /\ t.channel_start \in Nat /\ t.channel_end \in Nat
                          /\ Compute(j) => /\ t.array_start \in Nat /\ t.array_end \in Nat
                                           /\ t.channel_end <= t.array_end
                                           /\ t.complete = t.array_end
                          /\ ~Compute(j) => /\ t.array_start = -1 /\ t.array_end = -1
                                            /\ t.complete = t.channel_end
    BY <1>12 DEF RowsComplete
  <2>1. CASE j \in DOMAIN times
    BY <1>1, <1>11, <2>1 DEF RowsComplete
  <2>2. CASE j = k
    BY <1>8, <1>11, <1>15, <2>2
  <2> QED BY <1>11, <2>1, <2>2
<1>20. BusyExact'
  <2>1. ASSUME NEW r \in Channels
        PROVE  GreatestOf(ChannelEndsOf(r)', channel_busy_until'[r])
    <3>1. ChannelEndsOf(r)' = ChannelEndsOf(r) \cup
                              {row.channel_end : j \in {j \in {k} : ChannelOf(commands[j]) = r}}
      BY <1>7, <1>11 DEF ChannelEndsOf
    <3>2. GreatestOf(ChannelEndsOf(r), channel_busy_until[r]) /\ channel_busy_until[r] \in Nat
      BY <1>1, <1>14 DEF BusyExact
    <3>3. ChannelEndsOf(r) \subseteq Nat
      BY <1>1 DEF ChannelEndsOf, RowsComplete
    <3>4. CASE r = ChannelOf(commands[k])
      <4>1. channel_busy_until'[r] = row.channel_end
            /\ ChannelEndsOf(r)' = ChannelEndsOf(r) \cup {row.channel_end}
        BY <1>14, <1>16, <3>1, <3>4
      <4>2. channel_busy_until[r] <= row.channel_end
        BY <1>8, <1>14, <1>15, <3>4
      <4> QED BY <1>15, <3>2, <3>3, <4>1, <4>2 DEF GreatestOf
    <3>5. CASE r # ChannelOf(commands[k])
      BY <1>14, <1>16, <3>1, <3>2, <3>5
    <3> QED BY <3>4, <3>5
  <2>2. ASSUME NEW r \in Planes
        PROVE  GreatestOf(ArrayEndsOf(r)', plane_busy_until'[r])
    <3>1. ArrayEndsOf(r)' = ArrayEndsOf(r) \cup
            {row.array_end : j \in {j \in {k} : Compute(j) /\ PlaneOf(commands[j]) = r}}
      BY <1>7, <1>11, <1>12 DEF ArrayEndsOf
    <3>2. GreatestOf(ArrayEndsOf(r), plane_busy_until[r]) /\ plane_busy_until[r] \in Nat
      BY <1>1, <1>14 DEF BusyExact
    <3>3. ArrayEndsOf(r) \subseteq Nat
      BY <1>1 DEF ArrayEndsOf, RowsComplete
    <3>4. CASE Compute(k) /\ r = PlaneOf(commands[k])
      <4>1. plane_busy_until'[r] = row.array_end
            /\ ArrayEndsOf(r)' = ArrayEndsOf(r) \cup {row.array_end}
        BY <1>14, <1>16, <3>1, <3>4
      <4>2. plane_busy_until[r] <= row.array_end /\ row.array_end \in Nat
        BY <1>14, <1>15, <3>4
      <4> QED BY <3>2, <3>3, <4>1, <4>2 DEF GreatestOf
    <3>5. CASE ~(Compute(k) /\ r = PlaneOf(commands[k]))
      BY <1>14, <1>16, <3>1, <3>2, <3>5
    <3> QED BY <3>4, <3>5
  <2> QED BY <1>12, <2>1, <2>2 DEF BusyExact
<1>21. \E f \in Nat : GreatestOf(Completes', f)
  <2>1. Completes' = Completes \cup {row.complete}
    BY <1>11 DEF Completes
  <2>2. Completes \subseteq Nat
    <3>1. \A j \in DOMAIN times : times[j].complete \in Nat
      BY <1>1, SampleFacts
    <3> QED BY <3>1 DEF Completes
  <2>3. CASE e <= row.complete
    BY <1>2, <1>15, <2>1, <2>2, <2>3 DEF GreatestOf
  <2>4. CASE row.complete <= e
    BY <1>2, <1>15, <2>1, <2>2, <2>4 DEF GreatestOf
  <2> QED BY <1>15, <2>3, <2>4
<1>22. \A j \in DOMAIN times : \A i \in 1..j - 1 : i \in DOMAIN times
  BY <1>3
<1>23. \A i \in 1..k - 1 : i \in DOMAIN times
  BY <1>3, <1>4
<1>24. RowsOnTime'
  <2>1. ASSUME NEW j \in DOMAIN times
        PROVE  FollowsRule(commands, timing, times', j, issue_ns'[j]) /\ times'[j].complete # -1
    <3>1. FollowsRule(commands, timing, times, j, issue_ns[j]) /\ times[j].complete # -1
      BY <1>1 DEF RowsOnTime
    <3>3. /\ \A i \in 1..j - 1 : times'[i] = times[i]
          /\ times'[j] = times[j]
      BY <1>11, <1>22
    <3>2. /\ ChannelStart(commands, times', j, issue_ns[j])
               = ChannelStart(commands, times, j, issue_ns[j])
          /\ ArrayStart(commands, times', j) = ArrayStart(commands, times, j)
      <4>1. {times'[i].channel_end :
               i \in {i \in 1..j - 1 : ChannelOf(commands[i]) = ChannelOf(commands[j])}}
            = {times[i].channel_end :
                 i \in {i \in 1..j - 1 : ChannelOf(commands[i]) = ChannelOf(commands[j])}}
        BY <3>3
      <4>2. {times'[i].array_end :
               i \in {i \in 1..j - 1 : /\ commands[i].opcode = "READ_COMPUTE"
                                       /\ PlaneOf(commands[i]) = PlaneOf(commands[j])}}
            = {times[i].array_end :
                 i \in {i \in 1..j - 1 : /\ commands[i].opcode = "READ_COMPUTE"
                                         /\ PlaneOf(commands[i]) = PlaneOf(commands[j])}}
        BY <3>3
      <4> QED BY <3>3, <4>1, <4>2 DEF ChannelStart, ArrayStart
    <3> QED BY <1>11, <3>1, <3>2, <3>3 DEF FollowsRule
  <2>2. row.channel_start = ChannelStart(commands, times', k, issue)
    <3> DEFINE T == {issue} \cup {times'[j].channel_end :
                      j \in {j \in 1..k - 1 : ChannelOf(commands[j]) = ChannelOf(commands[k])}}
               busy == channel_busy_until[ChannelOf(commands[k])]
    <3>1. T = {issue} \cup {times[j].channel_end :
                 j \in {j \in DOMAIN times : ChannelOf(commands[j]) = ChannelOf(commands[k])}}
      <4>1. DOMAIN times = 1..k - 1
        BY <1>3, <1>4
      <4>2. \A j \in DOMAIN times : times'[j].channel_end = times[j].channel_end
        BY <1>11
      <4> QED BY <4>1, <4>2
    <3>2. GreatestOf(ChannelEndsOf(ChannelOf(commands[k])), busy)
      BY <1>1, <1>13 DEF BusyExact
    <3>3. T \subseteq Nat /\ T \cup {0} = {issue} \cup ChannelEndsOf(ChannelOf(commands[k]))
      BY <1>1, <1>6, <3>1 DEF ChannelEndsOf, RowsComplete
    <3>4. issue \in T
      OBVIOUS
    <3> HIDE DEF T
    <3>5. GreatestOf(T, row.channel_start)
      <4>1. \A t \in T : t <= row.channel_start
        <5>1. \A t \in T : t = issue \/ t <= busy
          BY <3>2, <3>3 DEF GreatestOf
        <5> QED BY <1>6, <1>8, <1>14, <1>15, <3>3, <5>1
      <4>2. row.channel_start \in T
        <5>1. row.channel_start = issue \/ (row.channel_start = busy /\ ~(issue > busy))
          BY <1>8 DEF Max2
        <5>2. busy \in T \/ busy = 0
          BY <3>2, <3>3 DEF GreatestOf
        <5>3. busy = 0 /\ ~(issue > busy) => issue = busy
          BY <1>6
        <5> QED BY <3>4, <5>1, <5>2, <5>3
      <4> QED BY <4>1, <4>2 DEF GreatestOf
    <3>6. Latest(T) = row.channel_start
      <4>1. T \subseteq Int
        BY <3>3
      <4> QED BY <3>5, <4>1, GreatestIsLatest
    <3> QED BY <3>6 DEF T, ChannelStart
  <2>3. ASSUME Compute(k)
        PROVE  row.array_start = ArrayStart(commands, times', k)
    <3> DEFINE T == {times'[k].channel_end} \cup {times'[j].array_end :
                      j \in {j \in 1..k - 1 : /\ commands[j].opcode = "READ_COMPUTE"
                                              /\ PlaneOf(commands[j]) = PlaneOf(commands[k])}}
               busy == plane_busy_until[PlaneOf(commands[k])]
               end == row.channel_end
    <3>1. T = {end} \cup {times[j].array_end :
                 j \in {j \in DOMAIN times : /\ Compute(j)
                                             /\ PlaneOf(commands[j]) = PlaneOf(commands[k])}}
      <4>1. DOMAIN times = 1..k - 1
        BY <1>3, <1>4
      <4>2. \A j \in DOMAIN times : times'[j].array_end = times[j].array_end
        BY <1>11
      <4>3. times'[k].channel_end = end
        BY <1>11
      <4> QED BY <4>1, <4>2, <4>3 DEF Compute
    <3>2. GreatestOf(ArrayEndsOf(PlaneOf(commands[k])), busy)
      BY <1>1, <1>13 DEF BusyExact
    <3>3. T \subseteq Nat /\ T \cup {0} = {end, 0} \cup ArrayEndsOf(PlaneOf(commands[k]))
      BY <1>1, <1>15, <3>1 DEF ArrayEndsOf, RowsComplete
    <3>4. end \in T
      BY <3>1
    <3> HIDE DEF T
    <3>5. GreatestOf(T, row.array_start)
      <4>1. \A t \in T : t <= row.array_start
        <5>1. \A t \in T : t = end \/ t <= busy
          BY <1>14, <3>2, <3>3 DEF GreatestOf
        <5> QED BY <1>14, <1>15, <2>3, <3>3, <5>1
      <4>2. row.array_start \in T
        <5>1. row.array_start = end \/ (row.array_start = busy /\ ~(end > busy))
          BY <1>8, <2>3 DEF Max2
        <5>2. busy \in T \/ busy = 0
          BY <3>2, <3>3 DEF GreatestOf
        <5>3. busy = 0 /\ ~(end > busy) => end = busy
          BY <1>15
        <5> QED BY <3>4, <5>1, <5>2, <5>3
      <4> QED BY <4>1, <4>2 DEF GreatestOf
    <3>6. Latest(T) = row.array_start
      <4>1. T \subseteq Int
        BY <3>3
      <4> QED BY <3>5, <4>1, GreatestIsLatest
    <3> QED BY <3>6 DEF T, ArrayStart
  <2>4. \A j \in 1..k - 1 : times'[j].channel_end # -1
    <3>1. \A j \in DOMAIN times : times[j].channel_end \in Nat
      BY <1>1 DEF RowsComplete
    <3>2. ASSUME NEW j \in 1..k - 1
          PROVE  times'[j] = times[j] /\ j \in DOMAIN times
      BY <1>11, <1>23
    <3> QED BY <3>1, <3>2
  <2>5. FollowsRule(commands, timing, times', k, issue) /\ times'[k].complete # -1
    <3>1. Compute(k) <=> commands[k].opcode = "READ_COMPUTE"
      BY DEF Compute
    <3>2. CASE Compute(k)
      BY <1>8, <1>11, <1>15, <2>2, <2>3, <2>4, <3>1, <3>2 DEF FollowsRule
    <3>3. CASE ~Compute(k)
      BY <1>8, <1>11, <1>15, <2>2, <2>4, <3>1, <3>3 DEF FollowsRule
    <3> QED BY <3>2, <3>3
  <2> QED BY <1>7, <1>11, <2>1, <2>5 DEF RowsOnTime
<1>25. TilesInTurn'
  <2> DEFINE Before(rows_, j) == {0} \cup
               {rows_[i].complete : i \in {i \in DOMAIN rows_ :
                                              Tile(commands[i]) < Tile(commands[j])}}
  <2>1. ASSUME NEW j \in DOMAIN times \cup {k}
        PROVE  Before(times', j) = Before(times, j)
    <3>1. j \in DOMAIN commands /\ j <= k
      <4>1. DOMAIN times \subseteq DOMAIN commands
        BY <1>1, SampleFacts
      <4> HIDE DEF n
      <4> QED BY <1>3, <1>4, <4>1
    <3>2. ~(Tile(commands[k]) < Tile(commands[j]))
      BY <1>1, <3>1 DEF StreamByTile
    <3> QED BY <1>11, <3>2
  <2>2. \A j \in DOMAIN times : issue_ns[j] = Latest(Before(times, j))
    BY <1>1 DEF TilesInTurn
  <2>3. issue = Latest(Before(times, k))
    <3>1. CASE k > 1 /\ Tile(commands[k]) = Tile(commands[k - 1])
      <4>1. k - 1 \in DOMAIN times
        BY <1>3, <1>4, <3>1
      <4>2. Before(times, k) = Before(times, k - 1)
        BY <3>1
      <4> QED BY <1>9, <2>2, <3>1, <4>1, <4>2
    <3>2. CASE ~(k > 1 /\ Tile(commands[k]) = Tile(commands[k - 1]))
      <4>1. \A i \in DOMAIN times : Tile(commands[i]) < Tile(commands[k])
        <5> SUFFICES ASSUME NEW i \in DOMAIN times
                     PROVE  Tile(commands[i]) < Tile(commands[k])
          OBVIOUS
        <5>1. /\ i \in DOMAIN commands /\ k - 1 \in DOMAIN commands
              /\ i <= k - 1 /\ k - 1 <= k /\ k > 1
          <6>1. DOMAIN times \subseteq DOMAIN commands
            BY <1>1, SampleFacts
          <6>2. i \in 1..n /\ k - 1 = n /\ n \in 1..n
            <7> HIDE DEF n
            <7> QED BY <1>3, <1>4
          <6> HIDE DEF n
          <6> QED BY <1>3, <1>4, <6>1, <6>2
        <5>2. /\ Tile(commands[i]) \in Nat /\ Tile(commands[k - 1]) \in Nat
              /\ Tile(commands[k]) \in Nat
              /\ Tile(commands[i]) <= Tile(commands[k - 1])
              /\ Tile(commands[k - 1]) <= Tile(commands[k])
          BY <1>1, <5>1 DEF StreamByTile
        <5> QED BY <3>2, <5>1, <5>2
      <4>2. Before(times, k) = Completes
        BY <4>1 DEF Completes
      <4>3. Completes \subseteq Int
        <5>1. \A i \in DOMAIN times : times[i].complete \in Nat
          BY <1>1, SampleFacts
        <5> QED BY <5>1 DEF Completes
      <4>4. Latest(Completes) = e
        BY <1>2, <4>3, GreatestIsLatest
      <4> QED BY <1>9, <3>2, <4>2, <4>4
    <3> QED BY <3>1, <3>2
  <2> HIDE DEF Before
  <2>4. \A j \in DOMAIN times' : issue_ns'[j] = Latest(Before(times', j))
    BY <1>11, <2>1, <2>2, <2>3
  <2>5. commands' = commands
    BY <1>7
  <2> QED BY <2>4, <2>5 DEF TilesInTurn, Tile, Before
<1> QED BY <1>17, <1>18, <1>19, <1>20, <1>21, <1>24, <1>25 DEF SampleInv

(* Returning, and stopping, leave the tables and rows alone.               *)
LEMMA SampleStep == SampleInv /\ [SampleScheduleNext]_svars => SampleInv'
<1> SUFFICES ASSUME SampleInv, [SampleScheduleNext]_svars PROVE SampleInv'
  OBVIOUS
<1>1. CASE Submit
  BY <1>1, SampleSubmit
<1>2. CASE Return \/ SampleScheduleTerminated \/ UNCHANGED svars
  <2>1. /\ commands' = commands /\ timing' = timing
        /\ channel_busy_until' = channel_busy_until /\ plane_busy_until' = plane_busy_until
        /\ issue_ns' = issue_ns /\ times' = times
    BY <1>2 DEF Return, SampleScheduleTerminated, svars
  <2>2. Channels' = Channels /\ Planes' = Planes
    BY <2>1 DEF Channels, Planes
  <2>3. SampleTypes' /\ StreamByTile' /\ RowsComplete'
    BY <2>1, <2>2 DEF SampleInv, SampleTypes, StreamByTile, RowsComplete, Tile, Compute
  <2>4. BusyExact'
    BY <2>1, <2>2 DEF SampleInv, BusyExact, ChannelEndsOf, ArrayEndsOf, Compute
  <2>5. \E e \in Nat : GreatestOf(Completes', e)
    BY <2>1 DEF SampleInv, Completes
  <2>6. RowsOnTime' /\ TilesInTurn'
    BY <2>1 DEF SampleInv, RowsOnTime, TilesInTurn, Tile
  <2> QED BY <2>3, <2>4, <2>5, <2>6 DEF SampleInv
<1> QED BY <1>1, <1>2 DEF SampleScheduleNext

(* The busy tables of controller_submit and the rows it has written agree  *)
(* after every command.                                                    *)
THEOREM SampleInvariance == SampleScheduleSpec => []SampleInv
<1> QED BY SampleInit, SampleStep, PTL DEF SampleScheduleSpec

(* Every row of the sample schedule is the one the busy-until rule gives   *)
(* it from its issue time (controller_submit), for every stream the        *)
(* command builder makes and every service time.                           *)
THEOREM SampleFollowsRule == SampleScheduleSpec => []RowsOnTime
<1>1. SampleInv => RowsOnTime
  BY DEF SampleInv
<1> QED BY <1>1, SampleInvariance, PTL

(* A tile is issued exactly when all earlier tiles are complete, as        *)
(* controller_max_complete_ns means it.                                    *)
THEOREM TilesOneByOne == SampleScheduleSpec => []TilesInTurn
<1>1. SampleInv => TilesInTurn
  BY DEF SampleInv
<1> QED BY <1>1, SampleInvariance, PTL

-----------------------------------------------------------------------------
(* The loops of the command builder.                                       *)

(* A number has one quotient and one remainder.                            *)
LEMMA DivModIs ==
  ASSUME NEW b \in Nat \ {0}, NEW k \in Nat, NEW r \in Nat, r < b
  PROVE  (b * k + r) \div b = k /\ (b * k + r) % b = r
<1>1. PICK a \in Nat : a = b * k + r
  OBVIOUS
<1>2. b * k \in Nat /\ b * k <= a /\ a < b * k + b
  BY <1>1
<1>3. a \div b = k
  BY <1>2, QuotientIs
<1>4. a = b * (a \div b) + (a % b)
  OBVIOUS
<1>5. a % b = r
  <2>1. a % b \in Nat
    BY DivMod
  <2> QED BY <1>1, <1>2, <1>3, <1>4, <2>1
<1> QED BY <1>1, <1>3, <1>5

(* The place of a tile on its channel.                                     *)
ChipIn(p, t)  == t % p.chips_per_channel
DieIn(p, t)   == (t \div p.chips_per_channel) % p.dies_per_chip
PlaneIn(p, t) == (t \div (p.chips_per_channel * p.dies_per_chip)) % p.planes_per_die

(* How many commands come before channel c of the o-th tile of group g.    *)
CommandsBefore(p, g, o, c) ==
  (2 * (IFC_READ_SLICES_PER_REQUEST * p.channels)) * g + (p.channels * o + c)

(* The command of the closed form at a turn of the loops: channel c of the *)
(* o-th tile of group g, and of its s-th slice.                            *)
LEMMA CommandOfTile ==
  ASSUME NEW p \in Platform, PlatformSupported(p), NEW g \in Nat, NEW o \in Nat, NEW c \in Nat,
         o < IFC_READ_SLICES_PER_REQUEST, c < p.channels
  PROVE  LET t == g * IFC_READ_SLICES_PER_REQUEST + o
         IN  CommandAt(p, CommandsBefore(p, g, o, c) + 1) =
               [opcode |-> "READ_COMPUTE", logical_id |-> t, slice_id |-> -1, channel |-> c,
                chip |-> ChipIn(p, t), die |-> DieIn(p, t), plane |-> PlaneIn(p, t),
                arrival_cycle |-> 0]
<1> DEFINE S == IFC_READ_SLICES_PER_REQUEST
           C == p.channels
           half == S * C
           d == 2 * half
           r == C * o + c
           n == CommandsBefore(p, g, o, c)
<1>1. S \in Nat \ {0} /\ C \in Nat \ {0} /\ half \in Nat \ {0} /\ half = C * S
  <2>1. S \in Nat \ {0} /\ C \in Nat \ {0}
    BY LimitsAssumption DEF PlatformSupported
  <2> HIDE DEF S, C
  <2> QED BY <2>1
<1>2. r \in Nat /\ r < half /\ r \div C = o /\ r % C = c
  <2>1. C * o \in Nat
    BY <1>1
  <2>2. C * o + C <= C * S
    BY <1>1, NextMultiple
  <2>3. r \div C = o /\ r % C = c
    BY <1>1, DivModIs
  <2>4. C * S \in Nat
    BY <1>1
  <2> HIDE DEF C, S
  <2> QED BY <1>1, <2>1, <2>2, <2>3, <2>4
<1>3. (n + 1) - 1 = n /\ n = d * g + r
  <2>1. n = d * g + r
    BY DEF CommandsBefore
  <2>2. d * g \in Nat
    <3> HIDE DEF half
    <3> QED BY <1>1
  <2> HIDE DEF n, d, r
  <2> QED BY <1>2, <2>1, <2>2
<1>4. n \div d = g /\ n % d = r
  <2>1. d \in Nat \ {0} /\ r < d
    <3> HIDE DEF r, half
    <3> QED BY <1>1, <1>2
  <2> HIDE DEF n, d, r
  <2> QED BY <1>2, <1>3, <2>1, DivModIs
<1>5. /\ ((n + 1) - 1) \div (2 * (S * p.channels)) = g
      /\ ((n + 1) - 1) % (2 * (S * p.channels)) = r
  BY <1>3, <1>4
<1> HIDE DEF n, r, S
<1> QED BY <1>2, <1>5 DEF CommandAt, ChipIn, DieIn, PlaneIn, S, n

LEMMA CommandOfSlice ==
  ASSUME NEW p \in Platform, PlatformSupported(p), NEW g \in Nat, NEW s \in Nat, NEW c \in Nat,
         s < IFC_READ_SLICES_PER_REQUEST, c < p.channels, NEW n \in Nat,
         n = (2 * (IFC_READ_SLICES_PER_REQUEST * p.channels)) * g
             + (p.channels * (IFC_READ_SLICES_PER_REQUEST + s) + c)
  PROVE  LET t == g * IFC_READ_SLICES_PER_REQUEST + IFC_READ_SLICES_PER_REQUEST - 1
         IN  CommandAt(p, n + 1) =
               [opcode |-> "READ_SLICE", logical_id |-> g, slice_id |-> s, channel |-> c,
                chip |-> ChipIn(p, t), die |-> DieIn(p, t),
                plane |-> (PlaneIn(p, t) + 1) % p.planes_per_die,
                arrival_cycle |-> 0]
<1> DEFINE S == IFC_READ_SLICES_PER_REQUEST
           C == p.channels
           half == S * C
           d == 2 * half
           q == C * s + c
           r == C * (S + s) + c
<1>1. S \in Nat \ {0} /\ C \in Nat \ {0} /\ half \in Nat \ {0} /\ half = C * S
  <2>1. S \in Nat \ {0} /\ C \in Nat \ {0}
    BY LimitsAssumption DEF PlatformSupported
  <2> HIDE DEF S, C
  <2> QED BY <2>1
<1>2. /\ q \in Nat /\ q < half /\ q \div C = s
      /\ r = half + q /\ r % C = c
  <2>1. C * s \in Nat
    BY <1>1
  <2>2. C * s + C <= C * S
    BY <1>1, NextMultiple
  <2>3. q \div C = s
    BY <1>1, DivModIs
  <2>4. C * S \in Nat /\ C * (S + s) = C * S + C * s
    BY <1>1
  <2>5. r % C = c
    <3>1. S + s \in Nat
      BY <1>1
    <3> QED BY <1>1, <3>1, DivModIs
  <2> HIDE DEF C, S
  <2> QED BY <1>1, <2>1, <2>2, <2>3, <2>4, <2>5
<1>3. (n + 1) - 1 = n /\ n = d * g + r
  OBVIOUS
<1>4. n \div d = g /\ n % d = r
  <2>1. d \in Nat \ {0} /\ r < d /\ r \in Nat
    <3> HIDE DEF q, half, r
    <3> QED BY <1>1, <1>2
  <2> HIDE DEF d, r
  <2> QED BY <1>3, <2>1, DivModIs
<1>5. /\ ((n + 1) - 1) \div (2 * (S * p.channels)) = g
      /\ ((n + 1) - 1) % (2 * (S * p.channels)) = r
      /\ ~(r < S * p.channels)
      /\ (r - S * p.channels) \div p.channels = s
  <2>1. ~(r < half) /\ r - half = q
    <3> HIDE DEF q, half, r
    <3> QED BY <1>1, <1>2
  <2> QED BY <1>2, <1>3, <1>4, <2>1
<1>6. r % p.channels = c
  BY <1>2
<1> HIDE DEF r, S
<1> QED BY <1>5, <1>6 DEF CommandAt, ChipIn, DieIn, PlaneIn, S

(* Where the loops are: at tile o of group g, everything before this turn  *)
(* has been appended.                                                      *)
At(g, o) ==
  LET S    == IFC_READ_SLICES_PER_REQUEST
      C    == platform.channels
      done == (2 * (S * C)) * g
  IN  /\ o < S /\ tile_id = g * S + o
      /\ pc = "read_compute" => Len(commands) = done + (C * o + channel)
      /\ pc = "read_slice" =>
           /\ o = S - 1 /\ slice_id < S
           /\ Len(commands) = done + (C * (S + slice_id) + channel)
      /\ pc = "ok" => tile_id = IFC_SAMPLE_TILES /\ Len(commands) = done + C * o

BuilderInv ==
  /\ BuilderTypeOK /\ PlatformSupported(platform)
  /\ \A n \in DOMAIN commands : commands[n] = CommandAt(platform, n)
  /\ pc # "full" => \E g, o \in Nat : At(g, o)
  /\ pc \in {"read_compute", "read_slice"} => tile_id < IFC_SAMPLE_TILES
  /\ pc = "full" => BuildFails(platform)

(* What the loops know of their platform.                                  *)
LEMMA BuilderPlatform ==
  ASSUME platform \in Platforms /\ PlatformSupported(platform)
  PROVE  /\ platform \in Platform /\ PlatformSupported(platform)
         /\ platform.channels \in Nat \ {0} /\ IFC_READ_SLICES_PER_REQUEST \in Nat \ {0}
         /\ IFC_SAMPLE_TILES \in Nat \ {0} /\ IFC_SSDSIM_MAX_COMMANDS \in Nat \ {0}
<1>1. platform \in Platform /\ PlatformSupported(platform)
  BY PlatformsAssumption
<1> QED BY <1>1, LimitsAssumption DEF PlatformSupported

(* How many commands there are, from where the last tile is.               *)
LEMMA CountByGroup ==
  ASSUME NEW p \in Platform, PlatformSupported(p), NEW g \in Nat, NEW o \in Nat,
         o < IFC_READ_SLICES_PER_REQUEST,
         IFC_SAMPLE_TILES = g * IFC_READ_SLICES_PER_REQUEST + o
  PROVE  CommandCount(p) = (2 * (IFC_READ_SLICES_PER_REQUEST * p.channels)) * g + p.channels * o
<1> DEFINE S == IFC_READ_SLICES_PER_REQUEST
           C == p.channels
<1>1. S \in Nat \ {0} /\ C \in Nat \ {0}
  BY LimitsAssumption DEF PlatformSupported
<1> HIDE DEF C
<1>2. IFC_SAMPLE_TILES \div S = g
  <2>1. IFC_SAMPLE_TILES = S * g + o
    BY <1>1
  <2> QED BY <1>1, <2>1, DivModIs
<1>3. CommandCount(p) = (g * S + o + g * S) * C
  BY <1>2 DEF CommandCount, C
<1>4. (g * S + o + g * S) * C = (2 * (S * C)) * g + C * o
  <2> HIDE DEF S
  <2> QED BY <1>1
<1> QED BY <1>3, <1>4 DEF C

(* The commands that are out at a turn of a tile that exists are fewer     *)
(* than there are in all.                                                  *)
LEMMA MoreToCome ==
  ASSUME NEW p \in Platform, PlatformSupported(p), NEW g \in Nat, NEW o \in Nat, NEW n \in Nat,
         o < IFC_READ_SLICES_PER_REQUEST,
         g * IFC_READ_SLICES_PER_REQUEST + o < IFC_SAMPLE_TILES,
         \/ n < (2 * (IFC_READ_SLICES_PER_REQUEST * p.channels)) * g
                  + (p.channels * o + p.channels)
         \/ /\ o = IFC_READ_SLICES_PER_REQUEST - 1
            /\ n < (2 * (IFC_READ_SLICES_PER_REQUEST * p.channels)) * (g + 1)
  PROVE  n < CommandCount(p)
<1> DEFINE S == IFC_READ_SLICES_PER_REQUEST
           C == p.channels
           T == IFC_SAMPLE_TILES
<1>1. S \in Nat \ {0} /\ C \in Nat \ {0} /\ T \in Nat
  BY LimitsAssumption DEF PlatformSupported
<1>2. PICK h \in Nat, r \in Nat : h = T \div S /\ r = T % S /\ r < S /\ T = S * h + r
  <2> HIDE DEF S, T
  <2>1. T \div S \in Nat /\ T % S \in 0..(S - 1)
    BY <1>1, DivMod
  <2>2. T = S * (T \div S) + (T % S)
    BY <1>1
  <2> USE <2>1
  <2> WITNESS T \div S \in Nat, T % S \in Nat
  <2> QED BY <1>1, <2>1, <2>2
<1>3. CommandCount(p) = (2 * (S * C)) * h + C * r
  <2>1. T = h * S + r
    <3> HIDE DEF S, T
    <3> QED BY <1>1, <1>2
  <2> QED BY <1>2, <2>1, CountByGroup
<1>4. g * S + o < T /\ o < S
  OBVIOUS
<1>5. \/ n < (2 * (S * C)) * g + (C * o + C)
      \/ o = S - 1 /\ n < (2 * (S * C)) * (g + 1)
  OBVIOUS
<1> HIDE DEF S, C, T
<1>6. PICK H \in Nat : H = S * C
  BY <1>1
<1>7. /\ S * g \in Nat /\ S * h \in Nat /\ (2 * H) * g \in Nat /\ (2 * H) * h \in Nat
      /\ C * o \in Nat /\ C * r \in Nat /\ g * S = S * g
      /\ (2 * H) * (g + 1) = (2 * H) * g + 2 * H
  BY <1>1, <1>2, <1>6
<1>8. PICK before \in Nat, all \in Nat : before = (2 * H) * g /\ all = (2 * H) * h
  BY <1>7
<1>9. /\ CommandCount(p) = all + C * r
      /\ n < before + (C * o + C) \/ (o = S - 1 /\ n < before + 2 * H)
  <2>1. (2 * (S * C)) * (g + 1) = before + 2 * H
    BY <1>6, <1>7, <1>8
  <2> QED BY <1>3, <1>5, <1>6, <1>8, <2>1
<1>10. C * o + C <= H
  <2>1. C * o + C <= C * S
    BY <1>1, <1>4, NextMultiple
  <2> QED BY <1>1, <1>6, <2>1
<1>11. ~(h < g)
  <2>1. h < g => S * h + S <= S * g
    BY <1>1, NextMultiple
  <2> QED BY <1>1, <1>2, <1>4, <1>7, <2>1
<1>12. CASE g < h
  <2>1. (2 * H) * g + 2 * H <= (2 * H) * h
    <3>1. 2 * H \in Nat
      OBVIOUS
    <3> QED BY <1>12, <3>1, NextMultiple
  <2>2. before + 2 * H <= all
    BY <1>8, <2>1
  <2>3. PICK x \in Nat, y \in Nat : x = C * o /\ y = C * r
    BY <1>7
  <2>4. /\ CommandCount(p) = all + y /\ x + C <= H
        /\ n < before + (x + C) \/ n < before + 2 * H
    BY <1>9, <1>10, <2>3
  <2> QED BY <1>1, <2>2, <2>4
<1>13. CASE g = h
  <2>1. o < r
    BY <1>1, <1>2, <1>4, <1>7, <1>13
  <2>2. C * o + C <= C * r
    BY <1>1, <2>1, NextMultiple
  <2>3. o # S - 1
    BY <1>1, <1>2, <2>1
  <2>4. before = all /\ C * r \in Nat /\ C * o \in Nat
    BY <1>7, <1>13, <1>8
  <2> QED BY <1>1, <1>9, <2>2, <2>3, <2>4
<1> QED BY <1>2, <1>11, <1>12, <1>13

LEMMA BuilderInvInit == BuilderInit => BuilderInv
<1> SUFFICES ASSUME BuilderInit PROVE BuilderInv
  OBVIOUS
<1>1. /\ platform \in Platforms /\ PlatformSupported(platform) /\ commands = << >>
      /\ tile_id = 0 /\ slice_id = 0 /\ channel = 0 /\ pc = "read_compute"
  BY DEF BuilderInit
<1>2. /\ platform.channels \in Nat \ {0} /\ IFC_READ_SLICES_PER_REQUEST \in Nat \ {0}
      /\ IFC_SAMPLE_TILES \in Nat \ {0} /\ IFC_SSDSIM_MAX_COMMANDS \in Nat \ {0}
  BY <1>1, BuilderPlatform
<1>3. BuilderTypeOK
  <2>1. commands \in Seq(Command) /\ Len(commands) = 0
    BY <1>1
  <2> HIDE DEF Command
  <2> QED BY <1>1, <1>2, <2>1 DEF BuilderTypeOK
<1>4. At(0, 0)
  <2>1. Len(commands) = 0
    BY <1>1
  <2>2. /\ (2 * (IFC_READ_SLICES_PER_REQUEST * platform.channels)) * 0 = 0
        /\ platform.channels * 0 = 0 /\ 0 * IFC_READ_SLICES_PER_REQUEST = 0
    BY <1>2
  <2> QED BY <1>1, <1>2, <2>1, <2>2 DEF At
<1> QED BY <1>1, <1>2, <1>3, <1>4 DEF BuilderInv

(* Appending the next command of the closed form.                          *)
LEMMA AppendNext ==
  ASSUME BuilderInv, platform' = platform,
         Len(commands) < CommandCount(platform), Len(commands) < IFC_SSDSIM_MAX_COMMANDS,
         commands' = Append(commands, CommandAt(platform, Len(commands) + 1))
  PROVE  /\ commands' \in Seq(Command) /\ Len(commands') = Len(commands) + 1
         /\ Len(commands') <= IFC_SSDSIM_MAX_COMMANDS
         /\ \A m \in DOMAIN commands' : commands'[m] = CommandAt(platform, m)
<1>1. /\ platform \in Platforms /\ PlatformSupported(platform)
      /\ commands \in Seq(Command) /\ IFC_SSDSIM_MAX_COMMANDS \in Nat
  BY LimitsAssumption DEF BuilderInv, BuilderTypeOK
<1>2. PICK n \in Nat : n = Len(commands)
  BY <1>1
<1>3. /\ CommandCount(platform) \in Nat
      /\ BuildCommands(platform) \in Seq(Command)
      /\ Len(BuildCommands(platform)) = CommandCount(platform)
  BY <1>1, BuilderPlatform, BuildCommandsType
<1>4. CommandAt(platform, n + 1) \in Command
  <2>1. n + 1 \in 1..CommandCount(platform)
    BY <1>2, <1>3
  <2>2. BuildCommands(platform)[n + 1] \in Command
    BY <1>3, <2>1
  <2> QED BY <2>1, <2>2 DEF BuildCommands
<1>5. PICK row \in Command : row = CommandAt(platform, n + 1)
  BY <1>4
<1>6. commands' = Append(commands, row)
  BY <1>2, <1>5
<1>7. /\ commands' \in Seq(Command) /\ Len(commands') = n + 1
      /\ \A m \in 1..n : commands'[m] = commands[m]
      /\ commands'[n + 1] = row
      /\ DOMAIN commands' = 1..(n + 1) /\ DOMAIN commands = 1..n
  BY <1>1, <1>2, <1>6
<1>8. \A m \in 1..n : commands[m] = CommandAt(platform, m)
  BY <1>7 DEF BuilderInv
<1>9. \A m \in 1..(n + 1) : m \in 1..n \/ m = n + 1
  OBVIOUS
<1> QED BY <1>1, <1>2, <1>5, <1>7, <1>8, <1>9

(* Turns of the loops keep the invariant.                                  *)
LEMMA BuilderStep == BuilderInv /\ [BuilderNext]_bvars => BuilderInv'
<1> SUFFICES ASSUME BuilderInv, [BuilderNext]_bvars PROVE BuilderInv'
  OBVIOUS
<1> DEFINE S == IFC_READ_SLICES_PER_REQUEST
           C == platform.channels
           T == IFC_SAMPLE_TILES
           n == Len(commands)
<1>1. /\ platform \in Platforms /\ PlatformSupported(platform)
      /\ commands \in Seq(Command) /\ n \in Nat /\ n <= IFC_SSDSIM_MAX_COMMANDS
      /\ DOMAIN commands = 1..n
      /\ tile_id \in 0..T /\ slice_id \in 0..S /\ channel \in 0..C
      /\ pc \in {"read_compute", "read_slice", "ok", "full"}
  BY DEF BuilderInv, BuilderTypeOK
<1>2. /\ platform \in Platform /\ PlatformSupported(platform)
      /\ C \in Nat \ {0} /\ S \in Nat \ {0} /\ T \in Nat \ {0}
      /\ IFC_SSDSIM_MAX_COMMANDS \in Nat \ {0}
  BY <1>1, BuilderPlatform
<1>3. CASE pc \in {"ok", "full"} \/ UNCHANGED bvars
  <2>1. UNCHANGED bvars
    BY <1>3 DEF BuilderNext, ReadCompute, EndTile, ReadSlice,
                EndSlice, BuilderTerminated
  <2>2. /\ platform' = platform /\ commands' = commands /\ tile_id' = tile_id
        /\ slice_id' = slice_id /\ channel' = channel /\ pc' = pc
    BY <2>1 DEF bvars
  <2>3. BuilderTypeOK'
    BY <2>2 DEF BuilderInv, BuilderTypeOK
  <2>4. pc' # "full" => \E g, o \in Nat : At(g, o)'
    BY <2>2 DEF BuilderInv, At
  <2> QED BY <2>2, <2>3, <2>4 DEF BuilderInv
<1>4. ASSUME pc \in {"read_compute", "read_slice"}, BuilderNext
      PROVE  BuilderInv'
  <2>1. tile_id < T
    BY <1>4 DEF BuilderInv
  <2>2. PICK g \in Nat, o \in Nat : At(g, o)
    BY <1>4 DEF BuilderInv
  <2> DEFINE done == (2 * (S * C)) * g
  <2>3. /\ o < S /\ tile_id = g * S + o
        /\ pc = "read_compute" => n = done + (C * o + channel)
        /\ pc = "read_slice" => /\ o = S - 1 /\ slice_id < S
                                /\ n = done + (C * (S + slice_id) + channel)
    BY <2>2 DEF At
  <2>4. /\ done \in Nat /\ g * S \in Nat /\ C * o \in Nat /\ C * S \in Nat
        /\ slice_id \in Nat /\ C * slice_id \in Nat /\ channel \in Nat /\ tile_id \in Nat
    <3> HIDE DEF S, C
    <3>1. S * C \in Nat /\ slice_id \in Nat
      BY <1>1, <1>2
    <3>2. 2 * (S * C) \in Nat
      BY <3>1
    <3> QED BY <1>1, <1>2, <3>1, <3>2
  <2>5. /\ Chip = ChipIn(platform, tile_id) /\ Die = DieIn(platform, tile_id)
        /\ Plane = PlaneIn(platform, tile_id)
    BY DEF Chip, Die, Plane, ChipIn, DieIn, PlaneIn
  <2>6. CASE ReadCompute
    <3>1. /\ pc = "read_compute" /\ channel < C
          /\ platform' = platform /\ tile_id' = tile_id /\ slice_id' = slice_id
      BY <2>6 DEF ReadCompute
    <3>2. n < CommandCount(platform)
      <4>1. n < done + (C * o + C)
        <5> HIDE DEF n, C, done
        <5> QED BY <1>1, <1>2, <2>3, <2>4, <3>1
      <4> QED BY <1>1, <1>2, <2>1, <2>3, <4>1, MoreToCome
    <3>3. CASE n < IFC_SSDSIM_MAX_COMMANDS
      <4>1. /\ commands' = Append(commands,
                  [opcode |-> "READ_COMPUTE", logical_id |-> tile_id, slice_id |-> -1,
                   channel |-> channel, chip |-> Chip, die |-> Die,
                   plane |-> Plane, arrival_cycle |-> 0])
            /\ channel' = channel + 1 /\ pc' = pc
        BY <2>6, <3>3 DEF ReadCompute, Fits, AppendCommand
      <4>2. commands' = Append(commands, CommandAt(platform, n + 1))
        <5>1. n = CommandsBefore(platform, g, o, channel)
          BY <2>3, <3>1 DEF CommandsBefore
        <5>2. CommandAt(platform, n + 1) =
                [opcode |-> "READ_COMPUTE", logical_id |-> g * S + o, slice_id |-> -1,
                 channel |-> channel, chip |-> ChipIn(platform, g * S + o),
                 die |-> DieIn(platform, g * S + o), plane |-> PlaneIn(platform, g * S + o),
                 arrival_cycle |-> 0]
          BY <1>1, <1>2, <2>3, <2>4, <3>1, <5>1, CommandOfTile
        <5> HIDE DEF n, done
        <5> QED BY <2>3, <2>5, <4>1, <5>2
      <4>3. /\ commands' \in Seq(Command) /\ Len(commands') = n + 1
            /\ Len(commands') <= IFC_SSDSIM_MAX_COMMANDS
            /\ \A m \in DOMAIN commands' : commands'[m] = CommandAt(platform, m)
        BY <3>1, <3>2, <3>3, <4>2, AppendNext
      <4>4. channel' \in 0..C
        BY <1>1, <1>2, <3>1, <4>1
      <4>5. BuilderTypeOK'
        BY <1>1, <3>1, <4>1, <4>3, <4>4 DEF BuilderTypeOK
      <4>6. n + 1 = done + (C * o + channel')
        <5> HIDE DEF n, C, done
        <5> QED BY <1>1, <1>2, <2>3, <2>4, <3>1, <4>1
      <4>7. At(g, o)'
        BY <2>3, <3>1, <4>1, <4>3, <4>6 DEF At
      <4> QED BY <2>1, <3>1, <4>1, <4>3, <4>5, <4>7 DEF BuilderInv
    <3>4. CASE ~(n < IFC_SSDSIM_MAX_COMMANDS)
      <4>1. pc' = "full" /\ commands' = commands /\ channel' = channel
        BY <2>6, <3>4 DEF ReadCompute, Fits
      <4>2. BuilderTypeOK'
        BY <1>1, <3>1, <4>1 DEF BuilderTypeOK
      <4>3. BuildFails(platform)
        <5> HIDE DEF n
        <5>1. CommandCount(platform) \in Nat
          BY <1>2, BuildCommandsType
        <5> QED BY <1>1, <1>2, <3>2, <3>4, <5>1 DEF BuildFails
      <4>4. BuildFails(platform)'
        BY <3>1, <4>3 DEF BuildFails, CommandCount
      <4>5. \A m \in DOMAIN commands' : commands'[m] = CommandAt(platform', m)
        BY <3>1, <4>1 DEF BuilderInv
      <4> QED BY <4>1, <4>2, <4>4, <4>5, <3>1 DEF BuilderInv
    <3> QED BY <3>3, <3>4
  <2>7. CASE ReadSlice
    <3>1. /\ pc = "read_slice" /\ channel < C
          /\ platform' = platform /\ tile_id' = tile_id /\ slice_id' = slice_id
      BY <2>7 DEF ReadSlice
    <3>2. n < CommandCount(platform)
      <4>1. n < (2 * (S * C)) * (g + 1)
        <5>1. C * slice_id + C <= C * S
          BY <1>2, <2>3, <2>4, <3>1, NextMultiple
        <5>2. C * (S + slice_id) = C * S + C * slice_id
          <6> HIDE DEF C, S
          <6> QED BY <1>2, <2>4
        <5>3. (2 * (S * C)) * (g + 1) = done + (C * S + C * S)
          <6> HIDE DEF C, S
          <6> QED BY <1>2
        <5>4. PICK x \in Nat, y \in Nat : x = C * S /\ y = C * slice_id
          BY <2>4
        <5>5. y + C <= x /\ n = done + (x + y + channel)
          BY <2>3, <3>1, <5>1, <5>2, <5>4
        <5> HIDE DEF n, C, done
        <5>6. n < done + (x + x)
          BY <1>1, <1>2, <2>4, <3>1, <5>5
        <5> QED BY <5>3, <5>4, <5>6
      <4> QED BY <1>1, <1>2, <2>1, <2>3, <3>1, <4>1, MoreToCome
    <3>3. CASE n < IFC_SSDSIM_MAX_COMMANDS
      <4>1. /\ commands' = Append(commands,
                  [opcode |-> "READ_SLICE", logical_id |-> tile_id \div S, slice_id |-> slice_id,
                   channel |-> channel, chip |-> Chip, die |-> Die,
                   plane |-> (Plane + 1) % platform.planes_per_die, arrival_cycle |-> 0])
            /\ channel' = channel + 1 /\ pc' = pc
        BY <2>7, <3>3 DEF ReadSlice, Fits, AppendCommand
      <4>2. commands' = Append(commands, CommandAt(platform, n + 1))
        <5>1. tile_id \div S = g
          <6>1. tile_id = S * g + o
            <7> HIDE DEF S
            <7> QED BY <1>2, <2>3
          <6> QED BY <1>2, <2>3, <6>1, DivModIs
        <5>2. tile_id = g * S + S - 1
          <6> HIDE DEF S
          <6> QED BY <1>2, <2>3, <2>4, <3>1
        <5>3. n = done + (C * (S + slice_id) + channel) /\ slice_id < S
          BY <2>3, <3>1
        <5>4. CommandAt(platform, n + 1) =
                [opcode |-> "READ_SLICE", logical_id |-> g, slice_id |-> slice_id,
                 channel |-> channel, chip |-> ChipIn(platform, g * S + S - 1),
                 die |-> DieIn(platform, g * S + S - 1),
                 plane |-> (PlaneIn(platform, g * S + S - 1) + 1) % platform.planes_per_die,
                 arrival_cycle |-> 0]
          BY <1>1, <1>2, <2>4, <3>1, <5>3, CommandOfSlice
        <5> HIDE DEF n, done
        <5> QED BY <2>5, <4>1, <5>1, <5>2, <5>4
      <4>3. /\ commands' \in Seq(Command) /\ Len(commands') = n + 1
            /\ Len(commands') <= IFC_SSDSIM_MAX_COMMANDS
            /\ \A m \in DOMAIN commands' : commands'[m] = CommandAt(platform, m)
        BY <3>1, <3>2, <3>3, <4>2, AppendNext
      <4>4. channel' \in 0..C
        BY <1>1, <1>2, <3>1, <4>1
      <4>5. BuilderTypeOK'
        BY <1>1, <3>1, <4>1, <4>3, <4>4 DEF BuilderTypeOK
      <4>6. n + 1 = done + (C * (S + slice_id) + channel')
        <5>1. PICK x \in Nat : x = C * (S + slice_id)
          <6> HIDE DEF C, S
          <6> QED BY <1>2, <2>4
        <5> HIDE DEF n, C, done
        <5> QED BY <1>1, <1>2, <2>3, <2>4, <3>1, <4>1, <5>1
      <4>7. At(g, o)'
        BY <2>3, <3>1, <4>1, <4>3, <4>6 DEF At
      <4> QED BY <2>1, <3>1, <4>1, <4>3, <4>5, <4>7 DEF BuilderInv
    <3>4. CASE ~(n < IFC_SSDSIM_MAX_COMMANDS)
      <4>1. pc' = "full" /\ commands' = commands /\ channel' = channel
        BY <2>7, <3>4 DEF ReadSlice, Fits
      <4>2. BuilderTypeOK'
        BY <1>1, <3>1, <4>1 DEF BuilderTypeOK
      <4>3. BuildFails(platform)
        <5> HIDE DEF n
        <5>1. CommandCount(platform) \in Nat
          BY <1>2, BuildCommandsType
        <5> QED BY <1>1, <1>2, <3>2, <3>4, <5>1 DEF BuildFails
      <4>4. BuildFails(platform)'
        BY <3>1, <4>3 DEF BuildFails, CommandCount
      <4>5. \A m \in DOMAIN commands' : commands'[m] = CommandAt(platform', m)
        BY <3>1, <4>1 DEF BuilderInv
      <4> QED BY <4>1, <4>2, <4>4, <4>5, <3>1 DEF BuilderInv
    <3> QED BY <3>3, <3>4
  <2>8. CASE EndTile
    <3>1. /\ pc = "read_compute" /\ channel = C /\ channel' = 0 /\ slice_id' = 0
          /\ platform' = platform /\ commands' = commands
      BY <1>1, <1>2, <2>8 DEF EndTile
    <3>2. n = done + (C * o + C)
      BY <2>3, <3>1
    <3>3. tile_id + 1 = S * g + (o + 1) /\ tile_id + 1 = (g * S) + (o + 1)
      <4> HIDE DEF S
      <4> QED BY <1>2, <2>3, <2>4
    <3>4. CASE o + 1 = S
      <4>1. (tile_id + 1) % S = 0
        <5>1. tile_id + 1 = S * (g + 1) + 0
          <6> HIDE DEF S
          <6> QED BY <1>2, <3>3, <3>4
        <5>2. g + 1 \in Nat /\ 0 \in Nat /\ 0 < S
          BY <1>2
        <5>3. (S * (g + 1) + 0) % S = 0
          BY <1>2, <5>2, DivModIs
        <5> QED BY <5>1, <5>3
      <4>2. pc' = "read_slice" /\ tile_id' = tile_id
        BY <2>8, <4>1 DEF EndTile
      <4>3. n = done + (C * (S + 0) + 0)
        <5> HIDE DEF n, C, S, done
        <5> QED BY <1>2, <2>4, <3>2, <3>4
      <4>4. At(g, o)'
        <5>1. o = S - 1 /\ 0 < S
          <6> HIDE DEF S
          <6> QED BY <1>2, <3>4
        <5> QED BY <2>3, <3>1, <4>2, <4>3, <5>1 DEF At
      <4>5. BuilderTypeOK'
        BY <1>1, <1>2, <3>1, <4>2 DEF BuilderTypeOK
      <4> QED BY <2>1, <3>1, <4>2, <4>4, <4>5 DEF BuilderInv
    <3>5. CASE o + 1 # S
      <4>1. o + 1 < S
        <5> HIDE DEF S
        <5> QED BY <1>2, <2>3, <3>5
      <4>2. (tile_id + 1) % S # 0
        <5>1. o + 1 \in Nat /\ o + 1 # 0
          OBVIOUS
        <5>2. (S * g + (o + 1)) % S = o + 1
          BY <1>2, <4>1, <5>1, DivModIs
        <5> QED BY <3>3, <5>1, <5>2
      <4>3. tile_id' = tile_id + 1 /\ pc' = IF tile_id + 1 < T THEN "read_compute" ELSE "ok"
        BY <2>8, <4>2 DEF EndTile, NextTile
      <4>4. n = done + (C * (o + 1) + 0) /\ n = done + C * (o + 1)
        <5> HIDE DEF n, C, done
        <5> QED BY <1>2, <2>4, <3>2
      <4>5. tile_id + 1 \in 0..T /\ (~(tile_id + 1 < T) => tile_id + 1 = T)
        BY <1>1, <1>2, <2>1, <2>4
      <4>6. At(g, o + 1)'
        BY <3>1, <3>3, <4>1, <4>3, <4>4, <4>5 DEF At
      <4>7. BuilderTypeOK'
        BY <1>1, <1>2, <3>1, <4>3, <4>5 DEF BuilderTypeOK
      <4>8. o + 1 \in Nat
        OBVIOUS
      <4> QED BY <3>1, <4>3, <4>6, <4>7, <4>8 DEF BuilderInv
    <3> QED BY <3>4, <3>5
  <2>9. CASE EndSlice
    <3>1. /\ pc = "read_slice" /\ channel = C /\ channel' = 0 /\ slice_id' = slice_id + 1
          /\ platform' = platform /\ commands' = commands
      BY <1>1, <1>2, <2>9 DEF EndSlice
    <3>2. n = done + (C * (S + slice_id) + C) /\ o = S - 1 /\ slice_id < S
      BY <2>3, <3>1
    <3>3. slice_id + 1 \in 0..S
      <4> HIDE DEF S
      <4> QED BY <1>1, <1>2, <2>4, <3>2
    <3>4. CASE slice_id + 1 < S
      <4>1. tile_id' = tile_id /\ pc' = pc
        BY <2>9, <3>4 DEF EndSlice
      <4>2. n = done + (C * (S + (slice_id + 1)) + 0)
        <5> HIDE DEF n, C, S, done
        <5> QED BY <1>2, <2>4, <3>2
      <4>3. At(g, o)'
        BY <2>3, <3>1, <3>2, <3>4, <4>1, <4>2 DEF At
      <4>4. BuilderTypeOK'
        BY <1>1, <1>2, <3>1, <3>3, <4>1 DEF BuilderTypeOK
      <4> QED BY <2>1, <3>1, <4>1, <4>3, <4>4 DEF BuilderInv
    <3>5. CASE ~(slice_id + 1 < S)
      <4>1. tile_id' = tile_id + 1 /\ pc' = IF tile_id + 1 < T THEN "read_compute" ELSE "ok"
        BY <2>9, <3>5 DEF EndSlice, NextTile
      <4>2. slice_id + 1 = S
        <5> HIDE DEF S
        <5> QED BY <1>2, <2>4, <3>2, <3>5
      <4>3. tile_id + 1 = (g + 1) * S + 0 /\ 0 < S
        <5> HIDE DEF S
        <5> QED BY <1>2, <2>3, <2>4, <3>2
      <4>4. /\ n = (2 * (S * C)) * (g + 1) + (C * 0 + 0)
            /\ n = (2 * (S * C)) * (g + 1) + C * 0
        <5>1. (2 * (S * C)) * (g + 1) = done + (C * S + C * S) /\ C * 0 = 0
          <6> HIDE DEF C, S
          <6> QED BY <1>2
        <5>2. C * (S + slice_id) + C = C * S + C * S
          <6> HIDE DEF C, S
          <6> QED BY <1>2, <2>4, <4>2
        <5> HIDE DEF n
        <5> QED BY <2>4, <3>2, <5>1, <5>2
      <4>5. tile_id + 1 \in 0..T /\ (~(tile_id + 1 < T) => tile_id + 1 = T)
        BY <1>1, <1>2, <2>1, <2>4
      <4>6. At(g + 1, 0)'
        BY <3>1, <4>1, <4>3, <4>4, <4>5 DEF At
      <4>7. BuilderTypeOK'
        BY <1>1, <1>2, <3>1, <3>3, <4>1, <4>5 DEF BuilderTypeOK
      <4>8. g + 1 \in Nat /\ 0 \in Nat
        OBVIOUS
      <4> QED BY <3>1, <4>1, <4>6, <4>7, <4>8 DEF BuilderInv
    <3> QED BY <3>4, <3>5
  <2> QED BY <1>4, <2>6, <2>7, <2>8, <2>9 DEF BuilderNext, BuilderTerminated, BuilderReturned
<1> QED BY <1>1, <1>3, <1>4

(* The loops of event_build_commands, wherever they are.                   *)
THEOREM BuilderInvariance == BuilderSpec => []BuilderInv
<1> QED BY BuilderInvInit, BuilderStep, PTL DEF BuilderSpec

(* event_build_commands builds the closed form that every other module     *)
(* takes for the stream, for every supported platform, and refuses it      *)
(* exactly when the array is too small.                                    *)
THEOREM BuilderCorrect == BuilderSpec => []BuildsStream
<1>1. BuilderInv => BuildsStream
  <2> SUFFICES ASSUME BuilderInv PROVE BuildsStream
    OBVIOUS
  <2>1. /\ platform \in Platforms /\ PlatformSupported(platform)
        /\ commands \in Seq(Command) /\ Len(commands) <= IFC_SSDSIM_MAX_COMMANDS
    BY DEF BuilderInv, BuilderTypeOK
  <2>2. ASSUME pc = "ok"
        PROVE  commands = BuildCommands(platform) /\ ~BuildFails(platform)
    <3>1. PICK g \in Nat, o \in Nat : At(g, o)
      BY <2>2 DEF BuilderInv
    <3>2. Len(commands) = CommandCount(platform)
      BY <2>1, <2>2, <3>1, BuilderPlatform, CountByGroup DEF At
    <3>3. DOMAIN commands = 1..CommandCount(platform)
      BY <2>1, <3>2
    <3>4. commands = [m \in DOMAIN commands |-> commands[m]]
      BY <2>1
    <3>5. commands = BuildCommands(platform)
      BY <3>3, <3>4 DEF BuilderInv, BuildCommands
    <3>6. ~BuildFails(platform)
      <4>1. Len(commands) \in Nat /\ IFC_SSDSIM_MAX_COMMANDS \in Nat
        BY <2>1, LimitsAssumption
      <4> QED BY <2>1, <3>2, <4>1 DEF BuildFails
    <3> QED BY <3>5, <3>6
  <2>3. pc = "full" => BuildFails(platform)
    BY DEF BuilderInv
  <2>4. \A m \in DOMAIN commands : commands[m] = CommandAt(platform, m)
    BY DEF BuilderInv
  <2> QED BY <2>2, <2>3, <2>4 DEF BuildsStream
<1> QED BY <1>1, BuilderInvariance, PTL
=============================================================================
