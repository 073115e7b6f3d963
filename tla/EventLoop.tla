------------------------------ MODULE EventLoop ------------------------------
(***************************************************************************)
(* The event backend of ssdsim_ifc.c                                       *)
(* (ifc_write_ssdsim_ifc_event_trace_for_platform): one loop that          *)
(* completes every stage that ends in the current cycle, issues every      *)
(* stage whose resources are free, in index order, and then moves the      *)
(* clock to the next event.                                                *)
(*                                                                         *)
(* A step of the model is one row of the trace (one completion or one      *)
(* issue), the end of a pass, or a move of the clock.  Indices a pass      *)
(* skips change nothing and are skipped in the same step.                  *)
(***************************************************************************)
EXTENDS CommandTable

CONSTANTS
  Platforms,          \* platforms the backend may be called with
  Timings,            \* stage durations it may derive for them
  GuardLimit,         \* iterations after which the loop gives up (10,000,000)
  TraceMayFail        \* whether a trace row may fail to be written

(* The loop's limit exceeds the stages of a full command array.            *)
ASSUME EventLoopAssumption ==
  /\ Platforms \subseteq Platform
  /\ Timings \subseteq Timing
  /\ GuardLimit \in Nat /\ GuardLimit > 4 * IFC_SSDSIM_MAX_COMMANDS + 1
  /\ TraceMayFail \in BOOLEAN

VARIABLES
  timing,             \* the stage durations
  current_cycle,
  pc,                 \* the pass the loop is in, or how the function returned
  i,                  \* the next index the pass looks at
  progress,           \* completed_this_cycle + issued_this_cycle > 0
  guard,
  active_commands,
  events, issue_events, complete_events,       \* the trace's rows
  max_active_commands, last_event_cycle,
  completed_commands

rows == <<events, issue_events, complete_events, max_active_commands, last_event_cycle>>
counters == <<active_commands, completed_commands, rows>>
vars == <<commands, timing, scheduling, current_cycle, pc, i, progress, guard, counters>>

Returns == {"ok", "unsupported", "write_error", "no_event", "guard"}

Running == pc \notin Returns

-----------------------------------------------------------------------------

Init ==
  /\ \E p \in Platforms :
       IF PlatformSupported(p) /\ ~BuildFails(p)
       THEN commands = BuildCommands(p) /\ pc = "complete"
       ELSE commands = << >> /\ pc = "unsupported"
  /\ timing \in Timings
  /\ InitTable
  /\ current_cycle = 0
  /\ i = 1
  /\ progress = FALSE
  /\ guard = 0
  /\ active_commands = 0 /\ completed_commands = 0
  /\ events = 0 /\ issue_events = 0 /\ complete_events = 0
  /\ max_active_commands = 0 /\ last_event_cycle = 0

(* Fault: every row is counted as an issue.                                *)
CountRowAsIssue(event_type, active) ==
  /\ events' = events + 1
  /\ issue_events' = issue_events + 1
  /\ complete_events' = complete_events
  /\ last_event_cycle' = current_cycle
  /\ max_active_commands' =
       IF active > max_active_commands THEN active ELSE max_active_commands

(* write_event_row: the counters kept while a row is written.              *)
CountRow(event_type, active) ==
  /\ events' = events + 1
  /\ issue_events' = IF event_type = "ISSUE" THEN issue_events + 1 ELSE issue_events
  /\ complete_events' = IF event_type = "ISSUE" THEN complete_events ELSE complete_events + 1
  /\ last_event_cycle' = current_cycle
  /\ max_active_commands' =
       IF active > max_active_commands THEN active ELSE max_active_commands

-----------------------------------------------------------------------------
(* The completion pass.                                                    *)

EndingNow == {k \in Ids : Active(k) /\ stage_end[k] = current_cycle}

Complete(k) ==
  /\ pc = "complete"
  /\ FirstFrom(i, EndingNow, k)
  /\ EndStage(k)
  /\ completed_commands' = IF LastStage(k) THEN completed_commands + 1
                                           ELSE completed_commands
  /\ CountRow("COMPLETE", active_commands)
  /\ active_commands' = active_commands - 1
  /\ progress' = TRUE
  /\ i' = k + 1
  /\ UNCHANGED <<commands, timing, current_cycle, pc, guard>>

(* Fault: the issue pass starts below the first index.                     *)
EndCompleteBelowFirst ==
  /\ pc = "complete"
  /\ NoneFrom(i, EndingNow)
  /\ pc' = "issue"
  /\ i' = 0
  /\ UNCHANGED <<commands, timing, scheduling, current_cycle, progress, guard, counters>>

EndComplete ==
  /\ pc = "complete"
  /\ NoneFrom(i, EndingNow)
  /\ pc' = "issue"
  /\ i' = 1
  /\ UNCHANGED <<commands, timing, scheduling, current_cycle, progress, guard, counters>>

-----------------------------------------------------------------------------
(* The issue pass.                                                         *)

Duration(k) == timing[StageOf(commands[k], stage[k])]

(* The stage starts before its row is written.                             *)
StartStage(k) ==
  /\ FirstFrom(i, Issuable(current_cycle), k)
  /\ BeginStage(k, current_cycle + Duration(k))

Issue(k) ==
  /\ pc = "issue"
  /\ StartStage(k)
  /\ active_commands' = active_commands + 1
  /\ CountRow("ISSUE", active_commands + 1)
  /\ progress' = TRUE
  /\ i' = k + 1
  /\ UNCHANGED <<commands, timing, current_cycle, pc, guard, completed_commands>>

(* Fault: the pass may end after its first issue.                          *)
EndIssueAfterFirst ==
  /\ pc = "issue"
  /\ i > 1 \/ NoneFrom(i, Issuable(current_cycle))
  /\ pc' = IF completed_commands >= Len(commands) THEN "ok" ELSE "advance"
  /\ UNCHANGED <<commands, timing, scheduling, current_cycle, i, progress, guard, counters>>

(* Fault: the loop starts over without moving the clock.                   *)
EndIssueNoAdvance ==
  /\ pc = "issue"
  /\ NoneFrom(i, Issuable(current_cycle))
  /\ pc' = IF completed_commands >= Len(commands) THEN "ok" ELSE "complete"
  /\ UNCHANGED <<commands, timing, scheduling, current_cycle, i, progress, guard, counters>>

EndIssue ==
  /\ pc = "issue"
  /\ NoneFrom(i, Issuable(current_cycle))
  /\ pc' = IF completed_commands >= Len(commands) THEN "ok" ELSE "advance"
  /\ UNCHANGED <<commands, timing, scheduling, current_cycle, i, progress, guard, counters>>

-----------------------------------------------------------------------------
(* The move of the clock.                                                  *)

NextEvents ==
  {stage_end[k] : k \in {j \in Ids : Active(j)}}
    \cup {commands[k].arrival_cycle :
            k \in {j \in Ids : Waiting(j) /\ commands[j].arrival_cycle > current_cycle}}

(* Fault: the comparison with the current cycle is the wrong way round.    *)
NoEventReversed ==
  \/ NextEvents = {}
  \/ \E t \in NextEvents : t > current_cycle \/ (t = current_cycle /\ ~progress)

(* The error exit: no event, an event in the past, or a cycle in which     *)
(* nothing happened and nothing will.                                      *)
NoEvent ==
  \/ NextEvents = {}
  \/ \E t \in NextEvents : t < current_cycle \/ (t = current_cycle /\ ~progress)

(* Fault: the clock moves to the last event.                               *)
AdvanceToLast ==
  /\ pc = "advance"
  /\ IF NoEvent
     THEN /\ pc' = "no_event"
          /\ UNCHANGED <<current_cycle, i, progress, guard>>
     ELSE /\ \E t \in NextEvents :
               (\A u \in NextEvents : t >= u) /\ current_cycle' = t
          /\ guard' = guard + 1
          /\ pc' = IF guard + 1 < GuardLimit THEN "complete" ELSE "guard"
          /\ i' = 1
          /\ progress' = FALSE
  /\ UNCHANGED <<commands, timing, scheduling, counters>>

(* Otherwise the clock moves to the earliest event and the loop starts     *)
(* over, unless the guard is spent.                                        *)
Advance ==
  /\ pc = "advance"
  /\ IF NoEvent
     THEN /\ pc' = "no_event"
          /\ UNCHANGED <<current_cycle, i, progress, guard>>
     ELSE /\ \E t \in NextEvents :
               (\A u \in NextEvents : t <= u) /\ current_cycle' = t
          /\ guard' = guard + 1
          /\ pc' = IF guard + 1 < GuardLimit THEN "complete" ELSE "guard"
          /\ i' = 1
          /\ progress' = FALSE
  /\ UNCHANGED <<commands, timing, scheduling, counters>>

(* A row that cannot be written ends the function at once.                 *)
WriteError ==
  /\ TraceMayFail
  /\ \/ /\ pc = "complete"
        /\ ~NoneFrom(i, EndingNow)
        /\ UNCHANGED <<scheduling, active_commands>>
     \/ /\ pc = "issue"
        /\ \E k \in Ids : StartStage(k)
        /\ active_commands' = active_commands + 1
  /\ pc' = "write_error"
  /\ UNCHANGED <<commands, timing, current_cycle, i, progress, guard, rows, completed_commands>>

Terminated == ~Running /\ UNCHANGED vars

Next ==
  \/ \E k \in Ids : Complete(k) \/ Issue(k)
  \/ EndComplete \/ EndIssue \/ Advance \/ WriteError
  \/ Terminated

Spec == Init /\ [][Next]_vars

(* The function runs to its return once called.                            *)
FairSpec == Spec /\ WF_vars(Next)

-----------------------------------------------------------------------------
(* Properties.                                                             *)

(* Every variable has its type; pc names a pass or a return.               *)
TypeOK ==
  /\ TableTypeOK
  /\ timing \in Timing
  /\ current_cycle \in Nat
  /\ pc \in {"complete", "issue", "advance"} \cup Returns
  /\ i \in Nat \ {0}
  /\ progress \in BOOLEAN
  /\ guard \in Nat
  /\ active_commands \in Int /\ completed_commands \in Nat
  /\ events \in Nat /\ issue_events \in Nat /\ complete_events \in Nat
  /\ max_active_commands \in Int /\ last_event_cycle \in Nat

(* The loop's error exits are never taken: while a command is unfinished   *)
(* some stage is under way and ends in the future, and the guard of ten    *)
(* million iterations is never spent.                                      *)
NoAbort == pc \notin {"no_event", "guard"}

StateCounts ==
  /\ active_commands = Cardinality(ActiveIds)
  /\ completed_commands = Cardinality({k \in Ids : Done(k)})
  /\ complete_events =
       Cardinality({e \in Ids \X (0..3) : e[2] < stage[e[1]]})
  /\ pc # "write_error" =>
       /\ issue_events = complete_events + active_commands
       /\ events = issue_events + complete_events

ChipsUsed == {<<commands[k].channel, commands[k].chip>> : k \in Ids}

ReportedExtremes ==
  /\ pc # "write_error" => active_commands <= max_active_commands
  /\ max_active_commands <= Cardinality(ChipsUsed)
  /\ pc \in {"issue", "advance", "ok"} => last_event_cycle = current_cycle
  /\ pc = "ok" => \A k \in Ids : stage_end[k] <= last_event_cycle

(* The counters the function reports agree with the command states at      *)
(* every row.  Issues and completions differ by the stages under way, and  *)
(* as many rows are completions as stages have ended.  The largest number  *)
(* of active commands covers the present one and never exceeds the chips   *)
(* the commands are on.  Every cycle the clock stops at has a row, so the  *)
(* last row of a run to the end is in the cycle the last stage ends in.    *)
CountersExact == StateCounts /\ ReportedExtremes

(* The clock only moves to the end of a stage under way and never past     *)
(* one: no completion is missed or processed late.                         *)
ClockStopsAtEnds ==
  [][current_cycle' # current_cycle =>
       /\ \E k \in ActiveIds : stage_end[k] = current_cycle'
       /\ \A k \in ActiveIds : stage_end[k] >= current_cycle']_vars

(* No idling: when the clock moves, every waiting stage is blocked by a    *)
(* resource another stage holds, so the single ascending issue pass leaves *)
(* nothing behind that could have run.                                     *)
WorkConserving ==
  [][current_cycle' # current_cycle =>
       \A k \in Ids : Waiting(k) => \E r \in Need(k) : owner[r] # None]_vars

(* A supported platform is always simulated to the end, unless a row of    *)
(* the trace cannot be written.                                            *)
Completes == <>(pc \in {"ok", "unsupported", "write_error"})

(* The event backend implements the service every backend promises.        *)
Service == INSTANCE ChipService WITH running <- ActiveIds

ImplementsService == Service!Spec
=============================================================================
