---------------------------- MODULE SampleSchedule ----------------------------
(***************************************************************************)
(* The sample schedule of controller.c                                     *)
(* (ifc_write_sample_controller_schedule_for_platform): a controller that  *)
(* keeps, for every channel and plane, the time until which it is busy,    *)
(* and places one command after the other.  The commands of a tile, its    *)
(* slices included, are issued together, when everything before the tile   *)
(* is complete.                                                            *)
(*                                                                         *)
(* The code adds and compares times in nanoseconds as doubles; they are    *)
(* natural numbers here.                                                   *)
(***************************************************************************)
EXTENDS ControllerRule

CONSTANT SampleTimings  \* service times it may derive for its platforms

ASSUME SampleScheduleAssumption == SampleTimings \subseteq ServiceTimes

VARIABLES
  channel_busy_until, plane_busy_until,
  issue_ns            \* per command scheduled so far; times likewise

svars == <<commands, timing, channel_busy_until, plane_busy_until, issue_ns, times, pc>>

(* pc is "submit", or how the function returned.                           *)
SampleScheduleInit ==
  /\ \E p \in Platforms :
       IF PlatformSupported(p)
       THEN commands = BuildCommands(p) /\ pc = "submit"
       ELSE commands = << >> /\ pc = "failed"
  /\ timing \in SampleTimings
  /\ channel_busy_until = [r \in Channels |-> 0]
  /\ plane_busy_until = [r \in Planes |-> 0]
  /\ issue_ns = << >>
  /\ times = << >>

Max2(a, b) == IF a > b THEN a ELSE b

(* Fault: only the channels are waited for.                                *)
MaxCompleteOfChannels ==
  Latest({0} \cup {channel_busy_until[r] : r \in Channels})

(* controller_max_complete_ns.                                             *)
MaxComplete ==
  Latest({0} \cup {channel_busy_until[r] : r \in Channels}
             \cup {plane_busy_until[r] : r \in Planes})

(* The tile a command is issued with: slices come with the last of their   *)
(* group.                                                                  *)
Tile(c) == IF c.opcode = "READ_COMPUTE" THEN c.logical_id
           ELSE (c.logical_id + 1) * IFC_READ_SLICES_PER_REQUEST - 1

(* Fault: every command waits for all that were placed before it.          *)
IssueTimeOfCommand(k) == MaxComplete

IssueTime(k) ==
  IF k > 1 /\ Tile(commands[k]) = Tile(commands[k - 1]) THEN issue_ns[k - 1]
                                                        ELSE MaxComplete

(* Fault: the array is read when the channel is done, the plane's last     *)
(* read is not looked at.                                                  *)
PlaceUnqueued(c, issue) ==
  LET start == Max2(issue, channel_busy_until[ChannelOf(c)])
      end   == start + ChannelTime(c, timing)
  IN  IF c.opcode = "READ_SLICE"
      THEN [channel_start |-> start, channel_end |-> end, array_start |-> -1,
            array_end |-> -1, complete |-> end]
      ELSE [channel_start |-> start, channel_end |-> end, array_start |-> issue,
            array_end |-> issue + timing.array, complete |-> issue + timing.array]

(* The row of a command under the busy times.                              *)
Place(c, issue) ==
  LET start == Max2(issue, channel_busy_until[ChannelOf(c)])
      end   == start + ChannelTime(c, timing)
      read  == Max2(end, plane_busy_until[PlaneOf(c)])
  IN  IF c.opcode = "READ_SLICE"
      THEN [channel_start |-> start, channel_end |-> end, array_start |-> -1,
            array_end |-> -1, complete |-> end]
      ELSE [channel_start |-> start, channel_end |-> end, array_start |-> read,
            array_end |-> read + timing.array, complete |-> read + timing.array]

PlaneBusyAfter(c, row) ==
  IF c.opcode = "READ_SLICE" THEN plane_busy_until
  ELSE [plane_busy_until EXCEPT ![PlaneOf(c)] = row.array_end]

(* controller_submit for the next command.                                 *)
Submit ==
  /\ pc = "submit" /\ Len(times) < Len(commands)
  /\ LET k   == Len(times) + 1
         c   == commands[k]
         row == Place(c, IssueTime(k))
     IN  /\ issue_ns' = Append(issue_ns, IssueTime(k))
         /\ times' = Append(times, row)
         /\ plane_busy_until' = PlaneBusyAfter(c, row)
         /\ channel_busy_until' = [channel_busy_until EXCEPT ![ChannelOf(c)] = row.channel_end]
  /\ UNCHANGED <<commands, timing, pc>>

(* After the last command the file is closed, which may fail.              *)
Return ==
  /\ pc = "submit" /\ Len(times) = Len(commands)
  /\ pc' \in {"ok", "failed"}
  /\ UNCHANGED <<commands, timing, channel_busy_until, plane_busy_until, issue_ns, times>>

SampleScheduleTerminated == pc # "submit" /\ UNCHANGED svars

SampleScheduleNext == Submit \/ Return \/ SampleScheduleTerminated

SampleScheduleSpec == SampleScheduleInit /\ [][SampleScheduleNext]_svars

-----------------------------------------------------------------------------
(* Properties.                                                             *)

(* Every row follows the busy-until rule from the time the command was     *)
(* issued, and is complete: the two busy tables remember of all earlier    *)
(* commands just what the rule asks for.                                   *)
RowsOnTime ==
  \A k \in DOMAIN times :
    /\ FollowsRule(commands, timing, times, k, issue_ns[k])
    /\ times[k].complete # -1

(* The tiles do not overlap: a command is issued exactly when the last     *)
(* command of the earlier tiles completes, its array read included, though *)
(* the controller keeps no completion times.                               *)
TilesInTurn ==
  \A k \in DOMAIN times :
    issue_ns[k] = Latest({0} \cup
      {times[j].complete : j \in {j \in DOMAIN times : Tile(commands[j]) < Tile(commands[k])}})
=============================================================================
