----------------------------- MODULE ReadyBackend -----------------------------
(***************************************************************************)
(* The SSDsim-derived trace of ssdsim_ifc.c                                *)
(* (ifc_write_ssdsim_ifc_trace_for_platform): the command stream is        *)
(* submitted in order, submit_read_compute and submit_read_slice place     *)
(* the stages of a command one after the other, and every stage is a row   *)
(* of the trace.                                                           *)
(***************************************************************************)
EXTENDS ReadyTimes

CONSTANTS
  Platforms,          \* platforms the backend may be called with
  Timings,            \* stage durations it may derive for them
  TraceMayFail        \* whether a row or a file may fail to be written

ASSUME ReadyBackendAssumption ==
  /\ Platforms \subseteq Platform
  /\ Timings \subseteq Timing
  /\ TraceMayFail \in BOOLEAN

VARIABLES
  commands, timing,
  command_id, stage,  \* the command being submitted and its next stage
  stage_end,          \* the end of the command's stage before that one
  stage_events, read_compute_commands, read_slice_commands,
  last_complete_cycle,
  pc                  \* "submit", or how the function returned

counters == <<stage_events, read_compute_commands, read_slice_commands, last_complete_cycle>>
vars == <<ready, rows, commands, timing, command_id, stage, stage_end, counters, pc>>

Init ==
  /\ \E p \in Platforms :
       IF PlatformSupported(p)
       THEN commands = BuildCommands(p) /\ pc = "submit"
       ELSE commands = << >> /\ pc = "failed"
  /\ timing \in Timings
  /\ InitReady
  /\ command_id = 1 /\ stage = 0 /\ stage_end = 0
  /\ stage_events = 0 /\ last_complete_cycle = 0
  /\ read_compute_commands = 0 /\ read_slice_commands = 0

Max2(a, b) == IF a > b THEN a ELSE b

(* Fault: a transfer looks at the chip only.                               *)
StartOfChip(c, s) ==
  CASE IsTransfer(StageOf(c, s))         -> ready[ChipOf(c)]
    [] StageOf(c, s) = "ARRAY_READ"      -> Max2(ready[ChipOf(c)], ready[PlaneOf(c)])
    [] StageOf(c, s) = "IFC_COMPUTE"     -> Max2(stage_end, ready[ComputeOf(c)])

(* When a stage starts.  The computation follows the array read, whose end *)
(* the code has at hand, and looks only at the compute unit.               *)
Start(c, s) ==
  CASE IsTransfer(StageOf(c, s))         -> Max2(ready[ChannelOf(c)], ready[ChipOf(c)])
    [] StageOf(c, s) = "ARRAY_READ"      -> Max2(ready[ChipOf(c)], ready[PlaneOf(c)])
    [] StageOf(c, s) = "IFC_COMPUTE"     -> Max2(stage_end, ready[ComputeOf(c)])

(* Fault: the last completion is that of the last row.                     *)
WriteStageLast(end) ==
  /\ stage_events' = stage_events + 1
  /\ last_complete_cycle' = end

(* write_stage: what is counted when a row has been written.               *)
WriteStage(end) ==
  /\ stage_events' = stage_events + 1
  /\ last_complete_cycle' = Max2(last_complete_cycle, end)

(* After its last stage a command is counted and the next one submitted.   *)
NextStage(c) ==
  IF stage + 1 < StageCount(c)
  THEN /\ stage' = stage + 1
       /\ UNCHANGED <<command_id, read_compute_commands, read_slice_commands>>
  ELSE /\ stage' = 0
       /\ command_id' = command_id + 1
       /\ IF c.opcode = "READ_COMPUTE"
          THEN /\ read_compute_commands' = read_compute_commands + 1
               /\ UNCHANGED read_slice_commands
          ELSE /\ read_slice_commands' = read_slice_commands + 1
               /\ UNCHANGED read_compute_commands

SubmitStage ==
  /\ pc = "submit" /\ command_id <= Len(commands)
  /\ LET c     == commands[command_id]
         start == Start(c, stage)
         end   == start + timing[StageOf(c, stage)]
     IN  /\ Occupy(c, stage, start, end)
         /\ WriteStage(end)
         /\ NextStage(c)
         /\ stage_end' = end
  /\ UNCHANGED <<commands, timing, pc>>

(* The trace is closed and the statistics are written.                     *)
Return ==
  /\ pc = "submit" /\ command_id > Len(commands)
  /\ pc' = "ok"
  /\ UNCHANGED <<ready, rows, commands, timing, command_id, stage, stage_end, counters>>

(* A row, the trace or the statistics cannot be written.                   *)
WriteError ==
  /\ TraceMayFail
  /\ pc = "submit"
  /\ pc' = "failed"
  /\ UNCHANGED <<ready, rows, commands, timing, command_id, stage, stage_end, counters>>

Terminated == pc # "submit" /\ UNCHANGED vars

Next == SubmitStage \/ Return \/ WriteError \/ Terminated

Spec == Init /\ [][Next]_vars

-----------------------------------------------------------------------------
(* Properties.                                                             *)

(* Every variable has its type.                                            *)
TypeOK ==
  /\ ReadyTypeOK(Command)
  /\ commands \in Seq(Command) /\ timing \in Timing
  /\ command_id \in 1..Len(commands) + 1
  /\ stage \in 0..3 /\ stage_end \in Nat
  /\ stage_events \in Nat /\ last_complete_cycle \in Nat
  /\ read_compute_commands \in Nat /\ read_slice_commands \in Nat
  /\ pc \in {"submit", "ok", "failed"}

(* The statistics agree with the trace: a row per event, the counts of     *)
(* commands by kind, and the latest end of any row (rows are not in the    *)
(* order of their ends).                                                   *)
ReportExact ==
  /\ stage_events = Len(rows)
  /\ last_complete_cycle = Latest({0} \cup {rows[j].end : j \in DOMAIN rows})
  /\ pc = "ok" =>
       /\ read_compute_commands + read_slice_commands = Len(commands)
       /\ Len(rows) = 4 * read_compute_commands + 2 * read_slice_commands

NoDelay(delay) == delay = 0

(* The trace is a list schedule of the stages without delay.               *)
List == INSTANCE ListSchedule WITH Commands <- Command, DelayAllowed <- NoDelay

ImplementsListSchedule == List!Spec
=============================================================================
