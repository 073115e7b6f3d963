--------------------------- MODULE CycleController ---------------------------
(***************************************************************************)
(* The cycle-stepped controller of controller.c                            *)
(* (ifc_write_cycle_controller_trace_for_platform): a READ_COMPUTE crosses *)
(* its channel and is then read from its plane, a READ_SLICE only crosses  *)
(* its channel.  Every cycle makes four passes over the commands and the   *)
(* resources: commands enter free channels, commands wait for free planes, *)
(* the channels count down, the planes count down.                         *)
(*                                                                         *)
(* A pass is a step.  No two commands of a pass touch the same resource,   *)
(* so the order of its indices shows only where commands compete for a     *)
(* channel or a plane, and there the lowest index wins.                    *)
(***************************************************************************)
EXTENDS ControllerRule, FiniteSets

CONSTANTS
  CycleTimings,       \* service times it may derive for them
  GuardLimit          \* cycles after which it gives up (1,000,000,000)

(* The limit is beyond what the commands take one after the other.         *)
ASSUME CycleControllerAssumption ==
  /\ CycleTimings \subseteq ServiceTimes
  /\ GuardLimit \in Nat \ {0}
  /\ \A t \in CycleTimings :
       GuardLimit > IFC_SSDSIM_MAX_COMMANDS * (t.read_compute + t.read_slice + t.array)

VARIABLES
  stage,              \* per command: QUEUED, CHANNEL, WAIT_ARRAY, ARRAY, DONE
  remaining_cycles,   \* per command, shared by the channel and the array
  channel_active, plane_active,   \* the command a resource serves
  done_count, cycle

recorded == <<channel_active, plane_active, times>>
vars == <<commands, timing, stage, remaining_cycles, recorded, done_count, cycle, pc>>

None == -1            \* no command

Ids == DOMAIN commands

(* pc is the pass, or how the function returned.                           *)
Returned == pc \in {"ok", "guard", "unsupported"}

-----------------------------------------------------------------------------

Init ==
  /\ \E p \in Platforms :
       IF PlatformSupported(p) /\ ~BuildFails(p)
       THEN commands = BuildCommands(p) /\ pc = "issue"
       ELSE commands = << >> /\ pc = "unsupported"
  /\ timing \in CycleTimings
  /\ stage = [k \in Ids |-> "QUEUED"]
  /\ remaining_cycles = [k \in Ids |-> 0]
  /\ times = [k \in Ids |-> Unset]
  /\ channel_active = [r \in Channels |-> None]
  /\ plane_active = [r \in Planes |-> None]
  /\ done_count = 0
  /\ cycle = 0

(* The resource that command k waits for in stage st.                      *)
Wanted(st, k) == IF st = "QUEUED" THEN ChannelOf(commands[k]) ELSE PlaneOf(commands[k])

(* Fault: the resource of a command is not looked at.                      *)
TakingUnchecked(st, active) ==
  {k \in Ids :
     /\ stage[k] = st
     /\ \A j \in 1..k - 1 :
          stage[j] = st => Wanted(st, j) # Wanted(st, k)}

(* Fault: a free resource goes to the last command that wants it.          *)
TakingLast(st, active) ==
  {k \in Ids :
     /\ stage[k] = st
     /\ active[Wanted(st, k)] = None
     /\ \A j \in k + 1..Len(commands) :
          stage[j] = st => Wanted(st, j) # Wanted(st, k)}

(* The commands in stage st that take their resource in this pass: the     *)
(* first of each free resource.                                            *)
Taking(st, active) ==
  {k \in Ids :
     /\ stage[k] = st
     /\ active[Wanted(st, k)] = None
     /\ \A j \in 1..k - 1 :
          stage[j] = st => Wanted(st, j) # Wanted(st, k)}

(* An active table after the commands of a set have taken their resource.  *)
Taken(st, active, taking) ==
  [r \in DOMAIN active |->
     IF \E k \in taking : Wanted(st, k) = r
     THEN CHOOSE k \in taking : Wanted(st, k) = r
     ELSE active[r]]

IssuePass ==
  /\ pc = "issue"
  /\ LET taking == {k \in Taking("QUEUED", channel_active) :
                      commands[k].arrival_cycle <= cycle}
     IN  /\ stage' = [k \in Ids |-> IF k \in taking THEN "CHANNEL" ELSE stage[k]]
         /\ remaining_cycles' =
              [k \in Ids |-> IF k \in taking THEN ChannelTime(commands[k], timing)
                                    ELSE remaining_cycles[k]]
         /\ times' = [k \in Ids |-> IF k \in taking
                                    THEN [times[k] EXCEPT !.channel_start = cycle]
                                    ELSE times[k]]
         /\ channel_active' = Taken("QUEUED", channel_active, taking)
  /\ pc' = "array"
  /\ UNCHANGED <<commands, timing, plane_active, done_count, cycle>>

ArrayPass ==
  /\ pc = "array"
  /\ LET taking == Taking("WAIT_ARRAY", plane_active)
     IN  /\ stage' = [k \in Ids |-> IF k \in taking THEN "ARRAY" ELSE stage[k]]
         /\ remaining_cycles' =
              [k \in Ids |-> IF k \in taking THEN timing.array ELSE remaining_cycles[k]]
         /\ times' = [k \in Ids |-> IF k \in taking
                                    THEN [times[k] EXCEPT !.array_start = cycle]
                                    ELSE times[k]]
         /\ plane_active' = Taken("WAIT_ARRAY", plane_active, taking)
  /\ pc' = "channel"
  /\ UNCHANGED <<commands, timing, channel_active, done_count, cycle>>

(* A table's commands, those of them that end in this cycle, and the table *)
(* and the countdown after it.                                             *)
Served(active) == {active[r] : r \in DOMAIN active} \ {None}

Ending(active) == {k \in Served(active) : remaining_cycles[k] <= 1}
Freed(active)  == [r \in DOMAIN active |->
                     IF active[r] \in Ending(active) THEN None ELSE active[r]]
CountDown(active) ==
  [k \in Ids |-> IF k \in Served(active) THEN remaining_cycles[k] - 1
                                         ELSE remaining_cycles[k]]

Counted(ended) == done_count + Cardinality(ended)

ChannelPass ==
  /\ pc = "channel"
  /\ LET ending == Ending(channel_active)
         done   == {k \in ending : commands[k].opcode = "READ_SLICE"}
     IN  /\ stage' = [k \in Ids |-> IF k \in done THEN "DONE"
                                    ELSE IF k \in ending THEN "WAIT_ARRAY" ELSE stage[k]]
         /\ times' = [k \in Ids |->
              IF k \in done
              THEN [times[k] EXCEPT !.channel_end = cycle + 1, !.complete = cycle + 1]
              ELSE IF k \in ending THEN [times[k] EXCEPT !.channel_end = cycle + 1]
              ELSE times[k]]
         /\ done_count' = Counted(done)
  /\ remaining_cycles' = CountDown(channel_active)
  /\ channel_active' = Freed(channel_active)
  /\ pc' = "plane"
  /\ UNCHANGED <<commands, timing, plane_active, cycle>>

(* The loop runs on while commands are unfinished and the limit is not     *)
(* reached.                                                                *)
LoopTest(done) ==
  IF done = Len(commands) THEN "ok"
  ELSE IF cycle + 1 < GuardLimit THEN "issue" ELSE "guard"

(* The plane pass also ends the cycle.                                     *)
PlanePass ==
  /\ pc = "plane"
  /\ LET ending == Ending(plane_active)
     IN  /\ stage' = [k \in Ids |-> IF k \in ending THEN "DONE" ELSE stage[k]]
         /\ times' = [k \in Ids |->
              IF k \in ending
              THEN [times[k] EXCEPT !.array_end = cycle + 1, !.complete = cycle + 1]
              ELSE times[k]]
         /\ done_count' = Counted(ending)
         /\ remaining_cycles' = CountDown(plane_active)
         /\ plane_active' = Freed(plane_active)
         /\ cycle' = cycle + 1
         /\ pc' = LoopTest(Counted(ending))
  /\ UNCHANGED <<commands, timing, channel_active>>

Terminated == Returned /\ UNCHANGED vars

Next == IssuePass \/ ArrayPass \/ ChannelPass \/ PlanePass \/ Terminated

Spec == Init /\ [][Next]_vars

-----------------------------------------------------------------------------
(* Properties.                                                             *)

(* Every variable has its type.                                            *)
TypeOK ==
  /\ commands \in Seq(Command) /\ timing \in ServiceTimes
  /\ stage \in [Ids -> {"QUEUED", "CHANNEL", "WAIT_ARRAY", "ARRAY", "DONE"}]
  /\ remaining_cycles \in [Ids -> Nat]
  /\ times \in [Ids -> [DOMAIN Unset -> Nat \cup {-1}]]
  /\ channel_active \in [Channels -> Ids \cup {None}]
  /\ plane_active \in [Planes -> Ids \cup {None}]
  /\ done_count \in Nat /\ cycle \in Nat
  /\ pc \in {"issue", "array", "channel", "plane", "ok", "guard", "unsupported"}

(* A resource's table entry and the stage of its command agree at every    *)
(* pass, so a channel or a plane serves one command at a time and none is  *)
(* lost between the channel and the plane; done_count is exact.            *)
OwnersExact ==
  /\ \A k \in Ids :
       /\ stage[k] = "CHANNEL" <=> channel_active[ChannelOf(commands[k])] = k
       /\ stage[k] = "ARRAY" <=> plane_active[PlaneOf(commands[k])] = k
       /\ commands[k].opcode = "READ_SLICE" => stage[k] \notin {"WAIT_ARRAY", "ARRAY"}
  /\ done_count = Cardinality({k \in Ids : stage[k] = "DONE"})

(* Stepping cycle by cycle records exactly the times of the busy-until     *)
(* rule: every service lasts its cycles although the passes share one      *)
(* countdown per command, no free cycle is lost between passes, and every  *)
(* channel and every plane serves its commands in stream order.  The loop  *)
(* ends when every command is recorded complete, never by its limit.       *)
OnSchedule ==
  /\ \A k \in Ids : FollowsRule(commands, timing, times, k, 0)
  /\ pc = "ok" => \A k \in Ids : times[k].complete # -1
  /\ pc # "guard"
=============================================================================
