---------------------------- MODULE ComponentModel ----------------------------
(***************************************************************************)
(* The SystemC component model (systemc/ifc_component_systemc.cpp): a      *)
(* controller that issues stages and an execution fabric that runs them,   *)
(* joined by two FIFOs, under the SystemC kernel.                          *)
(*                                                                         *)
(* Processes are cooperative: one runs until it waits.  The controller's   *)
(* steps (an issue, a completion, the end of a round) are separate steps   *)
(* here; what the other processes may do in between, in the same delta     *)
(* cycle, is invisible to it, since a FIFO shows neither writes nor reads  *)
(* of the other side before the kernel's update.                           *)
(*                                                                         *)
(* Time is counted in ticks that divide both the cycle and the module      *)
(* clock (half a nanosecond for 1 ns and 2.5 ns).  Left out: the rows of   *)
(* the trace (their failure is kept), the counters that are only reported, *)
(* the VCD signals and the Engram overlay.                                 *)
(***************************************************************************)
EXTENDS CommandTable

CONSTANTS
  Platforms,          \* platforms of the CSV's first row
  Timings,            \* stage durations, in cycles, derived for them
  Configs,            \* issue widths, queue depths and module clocks (in
                      \* ticks) of the command line
  CycleTicks,         \* ticks per cycle
  TraceMayFail        \* whether a trace row may fail to be written

Config == [issue_width : Nat \ {0}, queue_depth : Nat \ {0}, clock_ticks : Nat \ {0}]

ASSUME ComponentAssumption ==
  /\ Platforms \subseteq Platform
  /\ Timings \subseteq Timing
  /\ Configs \subseteq Config
  /\ CycleTicks \in Nat \ {0}
  /\ TraceMayFail \in BOOLEAN

VARIABLES
  timing, config,
  now,                \* simulation time, in ticks
  pc,                 \* where the controller is
  i, issued,          \* the round's next index, and its issues so far
  clock,              \* when the controller's wait for the module clock ends
  issue_backpressure_stalls, width_limited_dispatches,
  active_commands, completed_commands, timing_violations,
  issue_fifo,         \* stages on their way to the fabric
  done_fifo,          \* stages on their way back
  wake,               \* per stage process of the fabric: when its wait ends
  busy_units, busy_violations, fabric_issued, fabric_completed

stalls  == <<issue_backpressure_stalls, width_limited_dispatches>>
control == <<pc, i, issued, clock, stalls, active_commands, completed_commands, timing_violations>>
fabric  == <<wake, busy_units, busy_violations, fabric_issued, fabric_completed>>
fifos   == <<issue_fifo, done_fifo>>
inputs  == <<commands, timing, config>>
vars    == <<inputs, scheduling, now, control, fabric, fifos>>

-----------------------------------------------------------------------------
(* Time.                                                                   *)

CeilDiv(a, b) == (a + b - 1) \div b

(* cycle_from_time rounds to the nearest cycle, halves up.                 *)
Cycle(t) == (2 * t + CycleTicks) \div (2 * CycleTicks)

(* quantize_stage_cycles: up to a multiple of the module clock, then up to *)
(* a multiple of the cycle.                                                *)
Quantize(cycles) ==
  CeilDiv(CeilDiv(cycles * CycleTicks, config.clock_ticks) * config.clock_ticks, CycleTicks)

Duration(k) == Quantize(timing[StageOf(commands[k], stage[k])])

-----------------------------------------------------------------------------
(* sc_fifo.  The reader sees "items"; what is written in a delta cycle     *)
(* becomes an item, and what was read frees its place, when the kernel     *)
(* updates the channel.                                                    *)

EmptyFifo == [items |-> << >>, written |-> << >>, read |-> 0]

(* Fault: the update drops what has not been read yet.                     *)
UpdateOverwrites(fifo) == [items |-> fifo.written, written |-> << >>, read |-> 0]

Write(fifo, x) ==
  [items |-> fifo.items, written |-> Append(fifo.written, x), read |-> fifo.read]
Read(fifo) ==
  [items |-> Tail(fifo.items), written |-> fifo.written, read |-> fifo.read + 1]
Update(fifo) ==
  [items |-> fifo.items \o fifo.written, written |-> << >>, read |-> 0]

NumFree(fifo, depth) == depth - Len(fifo.items) - fifo.read - Len(fifo.written)

-----------------------------------------------------------------------------

(* Fault: the compute unit's key lacks the chip.                           *)
UnitWithoutChip(k) ==
  LET name == StageOf(commands[k], stage[k])
  IN  IF IsTransfer(name) THEN ChannelOf(commands[k])
      ELSE IF name = "ARRAY_READ" THEN PlaneOf(commands[k])
      ELSE ComputeOf([commands[k] EXCEPT !.chip = 0])

(* The unit of the fabric a stage runs on (unit_key_for).                  *)
Unit(k) ==
  LET name == StageOf(commands[k], stage[k])
  IN  IF IsTransfer(name) THEN ChannelOf(commands[k])
      ELSE IF name = "ARRAY_READ" THEN PlaneOf(commands[k])
      ELSE ComputeOf(commands[k])

Init ==
  /\ \E p \in Platforms :
       IF PlatformSupported(p)
       THEN commands = BuildCommands(p) /\ pc = "dispatch"
       ELSE commands = << >> /\ pc = "unsupported"
  /\ timing \in Timings /\ config \in Configs
  /\ InitTable
  /\ now = 0
  /\ i = 1 /\ issued = 0 /\ clock = 0
  /\ issue_backpressure_stalls = 0 /\ width_limited_dispatches = 0
  /\ active_commands = 0 /\ completed_commands = 0 /\ timing_violations = 0
  /\ issue_fifo = EmptyFifo /\ done_fifo = EmptyFifo
  /\ wake = << >>
  /\ busy_units = {} /\ busy_violations = 0
  /\ fabric_issued = 0 /\ fabric_completed = 0

-----------------------------------------------------------------------------
(* The controller: a dispatch round (issue_ready_commands).                *)

Ready == Issuable(Cycle(now))

RoundFull == issued >= config.issue_width

(* Fault: one place of the FIFO is never used.                             *)
FifoFullEarly == NumFree(issue_fifo, config.queue_depth) <= 1

FifoFull  == NumFree(issue_fifo, config.queue_depth) <= 0

Start(k) ==
  /\ pc = "dispatch" /\ ~RoundFull /\ ~FifoFull
  /\ FirstFrom(i, Ready, k)
  /\ BeginStage(k, Cycle(now) + Duration(k))
  /\ active_commands' = active_commands + 1

Issue(k) ==
  /\ Start(k)
  /\ issue_fifo' = Write(issue_fifo, k)
  /\ issued' = issued + 1
  /\ i' = k + 1
  /\ UNCHANGED <<inputs, now, pc, clock, stalls, completed_commands, timing_violations,
                 done_fifo, fabric>>

(* A ready command beyond the width or the FIFO's room: the controller     *)
(* waits one module clock, reading no completions, and scans again.        *)
CutRound ==
  /\ pc = "dispatch" /\ (RoundFull \/ FifoFull)
  /\ ~NoneFrom(i, Ready)
  /\ IF RoundFull
     THEN /\ width_limited_dispatches' = width_limited_dispatches + 1
          /\ UNCHANGED issue_backpressure_stalls
     ELSE /\ issue_backpressure_stalls' = issue_backpressure_stalls + 1
          /\ UNCHANGED width_limited_dispatches
  /\ pc' = "clock"
  /\ clock' = now + config.clock_ticks
  /\ UNCHANGED <<inputs, scheduling, now, i, issued, active_commands,
                 completed_commands, timing_violations, fifos, fabric>>

Rescan ==
  /\ pc = "clock" /\ clock = now
  /\ pc' = "dispatch"
  /\ i' = 1 /\ issued' = 0
  /\ UNCHANGED <<inputs, scheduling, now, clock, stalls, active_commands,
                 completed_commands, timing_violations, fifos, fabric>>

(* Fault: the run ends one command early.                                  *)
EndRoundEarly ==
  /\ pc = "dispatch"
  /\ NoneFrom(i, Ready)
  /\ pc' = IF completed_commands + 1 < Len(commands) THEN "read"
           ELSE IF active_commands = 0 /\ timing_violations = 0 THEN "ok" ELSE "failed"
  /\ UNCHANGED <<inputs, scheduling, now, i, issued, clock, stalls, active_commands,
                 completed_commands, timing_violations, fifos, fabric>>

(* Nothing is left to issue: the run is over, or a completion is awaited.  *)
EndRound ==
  /\ pc = "dispatch"
  /\ NoneFrom(i, Ready)
  /\ pc' = IF completed_commands < Len(commands) THEN "read"
           ELSE IF active_commands = 0 /\ timing_violations = 0 THEN "ok" ELSE "failed"
  /\ UNCHANGED <<inputs, scheduling, now, i, issued, clock, stalls, active_commands,
                 completed_commands, timing_violations, fifos, fabric>>

-----------------------------------------------------------------------------
(* The controller: completions.                                            *)

(* complete_stage first checks the times.                                  *)
CheckTime(done) ==
  LET end == stage_end[done.command_id]
  IN  timing_violations' =
        IF done.observed_cycle # end \/ Cycle(now) # end
        THEN timing_violations + 1 ELSE timing_violations

CompleteStage(done) ==
  LET k == done.command_id
  IN  /\ CheckTime(done)
      /\ EndStage(k)
      /\ active_commands' = active_commands - 1
      /\ completed_commands' = IF LastStage(k) THEN completed_commands + 1
                                               ELSE completed_commands

(* run_controller waits for a first completion and then for one delta      *)
(* cycle, and drain_same_time_completions takes all that have arrived.     *)
ReadDone ==
  /\ pc \in {"read", "drain"}
  /\ done_fifo.items # << >>
  /\ done_fifo' = Read(done_fifo)
  /\ CompleteStage(Head(done_fifo.items))
  /\ pc' = IF pc = "read" THEN "delta" ELSE "drain"
  /\ UNCHANGED <<inputs, now, i, issued, clock, stalls, issue_fifo, fabric>>

(* Fault: the next completion is awaited without a dispatch round.         *)
EndDrainNoDispatch ==
  /\ pc = "drain"
  /\ done_fifo.items = << >>
  /\ pc' = "read"
  /\ i' = 1 /\ issued' = 0
  /\ UNCHANGED <<inputs, scheduling, now, clock, stalls, active_commands,
                 completed_commands, timing_violations, fifos, fabric>>

EndDrain ==
  /\ pc = "drain"
  /\ done_fifo.items = << >>
  /\ pc' = "dispatch"
  /\ i' = 1 /\ issued' = 0
  /\ UNCHANGED <<inputs, scheduling, now, clock, stalls, active_commands,
                 completed_commands, timing_violations, fifos, fabric>>

(* A row that cannot be written ends the simulation.  An ISSUE row is      *)
(* written after the stage has begun, a COMPLETE row before it ends.       *)
WriteError ==
  /\ TraceMayFail
  /\ \/ /\ \E k \in Ids : Start(k)
        /\ UNCHANGED <<timing_violations, done_fifo>>
     \/ /\ pc \in {"read", "drain"} /\ done_fifo.items # << >>
        /\ done_fifo' = Read(done_fifo)
        /\ CheckTime(Head(done_fifo.items))
        /\ UNCHANGED <<scheduling, active_commands>>
  /\ pc' = "write_error"
  /\ UNCHANGED <<inputs, now, i, issued, clock, stalls, completed_commands, issue_fifo, fabric>>

-----------------------------------------------------------------------------
(* The fabric.                                                             *)

(* dispatch: checks the unit, marks it busy and spawns a stage process,    *)
(* which at once waits for its duration.  Its end is exact here:           *)
(* cycles_to_time leaves it to sc_time to round the wait to a picosecond,  *)
(* far from the half cycle that Cycle rounds away.                         *)
Dispatch ==
  /\ issue_fifo.items # << >>
  /\ LET k == Head(issue_fifo.items)
     IN  /\ busy_violations' = IF Unit(k) \in busy_units THEN busy_violations + 1
                                                         ELSE busy_violations
         /\ busy_units' = busy_units \cup {Unit(k)}
         /\ wake' = [j \in DOMAIN wake \cup {k} |->
                       IF j = k THEN now + Duration(k) * CycleTicks ELSE wake[j]]
  /\ issue_fifo' = Read(issue_fifo)
  /\ fabric_issued' = fabric_issued + 1
  /\ UNCHANGED <<inputs, scheduling, now, control, done_fifo, fabric_completed>>

(* run_stage after its wait.  Stages that end together end in any order.   *)
RunStage(k) ==
  /\ k \in DOMAIN wake /\ wake[k] = now
  /\ busy_units' = busy_units \ {Unit(k)}
  /\ fabric_completed' = fabric_completed + 1
  /\ done_fifo' = Write(done_fifo, [command_id |-> k, observed_cycle |-> Cycle(now)])
  /\ wake' = [j \in DOMAIN wake \ {k} |-> wake[j]]
  /\ UNCHANGED <<inputs, scheduling, now, control, issue_fifo, busy_violations, fabric_issued>>

-----------------------------------------------------------------------------
(* The kernel.                                                             *)

Stopped == pc \in {"ok", "failed", "write_error", "unsupported"}

(* A process that can run in the current delta cycle.                      *)
Runnable ==
  \/ pc \in {"dispatch", "drain"}
  \/ pc = "read" /\ done_fifo.items # << >>
  \/ pc = "clock" /\ clock = now
  \/ issue_fifo.items # << >>
  \/ \E k \in DOMAIN wake : wake[k] = now

Pending(fifo) == fifo.written # << >> \/ fifo.read > 0

Requests == pc = "delta" \/ Pending(issue_fifo) \/ Pending(done_fifo)

(* The next delta cycle: channels are updated, zero-time waits end.        *)
NextDelta ==
  /\ ~Stopped /\ ~Runnable /\ Requests
  /\ issue_fifo' = Update(issue_fifo)
  /\ done_fifo' = Update(done_fifo)
  /\ pc' = IF pc = "delta" THEN "drain" ELSE pc
  /\ UNCHANGED <<inputs, scheduling, now, i, issued, clock, stalls, active_commands,
                 completed_commands, timing_violations, fabric>>

Alarms == {wake[k] : k \in DOMAIN wake} \cup (IF pc = "clock" THEN {clock} ELSE {})

NextTime ==
  /\ ~Stopped /\ ~Runnable /\ ~Requests
  /\ \E t \in Alarms : (\A u \in Alarms : t <= u) /\ now' = t
  /\ UNCHANGED <<inputs, scheduling, control, fabric, fifos>>

(* sc_start returns when it is stopped, or when nothing is left to wake    *)
(* up.                                                                     *)
Starved == ~Runnable /\ ~Requests /\ Alarms = {}

Terminated == (Stopped \/ Starved) /\ UNCHANGED vars

Controller ==
  \/ \E k \in Ids : Issue(k)
  \/ CutRound \/ Rescan \/ EndRound \/ ReadDone \/ EndDrain \/ WriteError

(* The controller is in the middle of its run between two waits.           *)
ControllerRuns == pc \in {"dispatch", "drain"}

Fabric ==
  /\ ~Stopped /\ ~ControllerRuns
  /\ Dispatch \/ \E k \in Ids : RunStage(k)

Next ==
  \/ Controller
  \/ Fabric
  \/ NextDelta \/ NextTime
  \/ Terminated

Spec == Init /\ [][Next]_vars

(* sc_start runs the kernel until it is stopped.                           *)
FairSpec == Spec /\ WF_vars(Next)

-----------------------------------------------------------------------------
(* Properties.                                                             *)

Fifo(S) == [items : Seq(S), written : Seq(S), read : Nat]

(* Every variable has its type; a stage process belongs to a command.      *)
TypeOK ==
  /\ TableTypeOK
  /\ timing \in Timing /\ config \in Config
  /\ now \in Nat /\ clock \in Nat
  /\ pc \in {"dispatch", "clock", "read", "delta", "drain", "ok", "failed",
            "write_error", "unsupported"}
  /\ i \in Nat \ {0} /\ issued \in Nat
  /\ issue_backpressure_stalls \in Nat /\ width_limited_dispatches \in Nat
  /\ active_commands \in Int /\ completed_commands \in Nat /\ timing_violations \in Nat
  /\ issue_fifo \in Fifo(Ids)
  /\ done_fifo \in Fifo([command_id : Ids, observed_cycle : Nat])
  /\ DOMAIN wake \subseteq Ids /\ \A k \in DOMAIN wake : wake[k] \in Nat
  /\ busy_units \subseteq AllResources
  /\ busy_violations \in Nat /\ fabric_issued \in Nat /\ fabric_completed \in Nat

Entries(fifo) == fifo.items \o fifo.written

Times(s, k) == Cardinality({n \in DOMAIN s : s[n] = k})

(* In how many places the stage of command k is: on its way to the fabric, *)
(* in a stage process, or on its way back.                                 *)
Places(k) ==
  Times(Entries(issue_fifo), k)
    + (IF k \in DOMAIN wake THEN 1 ELSE 0)
    + Cardinality({n \in DOMAIN Entries(done_fifo) : Entries(done_fifo)[n].command_id = k})

(* A stage the controller has begun and not ended is in exactly one place, *)
(* and no other stage is anywhere: none is lost or run twice between the   *)
(* modules (stopped runs leave what is in flight behind).                  *)
OnePlace ==
  ~Stopped => \A k \in Ids : Places(k) = IF Active(k) THEN 1 ELSE 0

(* Two tables of the same resources, updated at different times, are both  *)
(* exact.  The controller's owners are the stages under way, wherever they *)
(* are.  The fabric never finds a unit busy, although it frees a unit      *)
(* before the controller knows: its busy set is the units of its stage     *)
(* processes, one each, and each is a unit the controller still holds for  *)
(* that command.                                                           *)
UnitsExact ==
  /\ OwnersExact
  /\ busy_violations = 0
  /\ busy_units = {Unit(k) : k \in DOMAIN wake}
  /\ \A k \in DOMAIN wake : owner[Unit(k)] = k

ChipsUsed == {<<commands[k].channel, commands[k].chip>> : k \in Ids}

WideEnough ==
  /\ config.issue_width >= Cardinality(ChipsUsed)
  /\ config.queue_depth >= Cardinality(ChipsUsed)

(* A completion is only late when a dispatch round was cut short, and no   *)
(* round is if the width and the FIFO offer every chip a place.  So the    *)
(* controller's own check passes on every such configuration.              *)
LateOnlyIfCut ==
  /\ timing_violations > 0 => issue_backpressure_stalls + width_limited_dispatches > 0
  /\ WideEnough => issue_backpressure_stalls + width_limited_dispatches = 0

(* sc_start only returns because the controller stopped the simulation: as *)
(* long as commands are left, something is under way that will wake it.    *)
(* And a simulation that is not stopped by a failed row has run every      *)
(* command to its end, has nothing in flight and leaves issues and         *)
(* completions of the fabric balanced: what sc_main checks after sc_start. *)
(* It fails only by the timing check.                                      *)
StopsClean ==
  /\ Starved => Stopped
  /\ pc \in {"ok", "failed"} =>
       /\ pc = "ok" <=> timing_violations = 0
       /\ \A k \in Ids : Done(k)
       /\ active_commands = 0 /\ DOMAIN wake = {}
       /\ Entries(issue_fifo) = << >> /\ Entries(done_fifo) = << >>
       /\ fabric_issued = fabric_completed /\ busy_violations = 0

(* The controller's self-check: every completion is handled in the cycle   *)
(* its stage ends in (run_controller fails unless timing_violations_ is 0).*)
OnTime == timing_violations = 0

(* Every simulation ends, and never by starving the controller.            *)
Completes == <>Stopped

(* The component model implements the service every backend promises.      *)
Service == INSTANCE ChipService WITH running <- ActiveIds

ImplementsService == Service!Spec
=============================================================================
