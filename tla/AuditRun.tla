------------------------------- MODULE AuditRun -------------------------------
(***************************************************************************)
(* The audit of the event backend that make runs: the recipe of each of    *)
(* its targets runs the simulator, which writes its files into results/,   *)
(* then a checker, which schedules the same commands by itself and         *)
(* compares its statistics with those of the simulator's file, and then    *)
(* looks at the comparison.  The first error ends a program, a recipe and  *)
(* the making of further targets.                                          *)
(*                                                                         *)
(* The targets share results/, which earlier runs may have filled, and     *)
(* nothing keeps make -j from running them at once.                        *)
(*                                                                         *)
(* A file is written through a stdio buffer.  Of large files a row may be  *)
(* lost when it is printed, and some writers do not look; of small files   *)
(* everything is written when they are closed.                             *)
(***************************************************************************)
EXTENDS EngramOverlay

CONSTANTS
  Targets,            \* in the order make is given them
  Component,          \* the target whose checker is the component model
  Outputs,            \* the simulator's files, in the order they are written
  Kind,               \* of each of them "checked", "unchecked" or "small"
  EventStats,         \* ssdsim_ifc_event_stats.csv
  Differences,        \* the sets of metrics that a checker may find different
  StageEvents,        \* the rows of the stages in the component model's trace
  EventFiles,         \* what --engram-events may be
  MaxJobs, MaxFaults

(* What the checkers compare, in the order in which they read it; the      *)
(* component model compares the time of its last event as well.            *)
Metrics == <<"events", "completed_commands", "last_event_cycle", "last_event_ns">>
MetricsOf(target) == IF target = Component THEN Metrics ELSE SubSeq(Metrics, 1, 3)

(* A file of lookups that is not empty: lines of any length, below a       *)
(* header that has the platform's column if it has all that are required.  *)
EventFile(f) ==
  /\ f \in Seq(ToSet(f)) /\ f # << >>
  /\ \A n \in 1..Len(f) : f[n].fields \in Nat
  /\ f[1].required => f[1].platform \in 1..f[1].fields
  /\ \A n \in 2..Len(f) :
       {f[n].start, f[n].ready, f[n].target, f[n].visible, f[n].layer} \subseteq Int

ASSUME AuditRunAssumption ==
  /\ Targets \in Seq(ToSet(Targets)) /\ Targets # << >>
  /\ Outputs \in Seq(ToSet(Outputs))
  /\ \E n \in DOMAIN Outputs : Outputs[n] = EventStats
  /\ Kind \in [ToSet(Outputs) -> {"checked", "unchecked", "small"}]
  /\ Kind[EventStats] = "small"
  /\ \A D \in Differences : D \subseteq ToSet(Metrics)
  /\ StageEvents \in Nat
  /\ \A f \in EventFiles \ {NotGiven, Missing, << >>} : EventFile(f)
  /\ MaxJobs \in Nat \ {0} /\ MaxFaults \in Nat

VARIABLES
  jobs,               \* make's limit
  faults,             \* how many writes have failed
  disk,               \* results/: the simulator's files, and who opened them last
  own,                \* the trace, statistics and comparison of each checker
  pc, file,           \* of each target: where it is, the simulator's next file
  lost,               \* whether a row of the open file was lost unnoticed
  differ,             \* the metrics that the checker's comparison does not accept
  seen,               \* what the checker read of each metric
  engram              \* the overlay of the component model

vars == <<jobs, faults, disk, own, pc, file, lost, differ, seen, engram>>

Jobs == DOMAIN Targets
Job(target) == CHOOSE t \in Jobs : Targets[t] = target

NoOverlay == [file |-> NotGiven, left |-> << >>, rows |-> << >>]

Init ==
  /\ jobs \in 1..MaxJobs
  /\ faults = 0
  /\ \E content \in {"absent", "old"} :
       /\ disk = [f \in ToSet(Outputs) |-> [content |-> content, by |-> 0]]
       /\ own = [t \in Jobs |-> [f \in {"trace", "stats", "compare"} |-> content]]
  /\ pc = [t \in Jobs |-> "waiting"] /\ file = [t \in Jobs |-> 1]
  /\ lost = [t \in Jobs |-> FALSE]
  /\ differ = [t \in Jobs |-> {}] /\ seen = [t \in Jobs |-> << >>]
  /\ engram = NoOverlay

At(t, place) == pc[t] = place
Goto(t, place) == pc' = [pc EXCEPT ![t] = place]

Fault == faults < MaxFaults /\ faults' = faults + 1

Ended == {"waiting", "passed", "failed"}

(* make starts the next target if it has a slot and nothing failed.        *)
Begin(t) ==
  /\ At(t, "waiting") /\ \A u \in 1..t - 1 : ~At(u, "waiting")
  /\ \A u \in Jobs : ~At(u, "failed")
  /\ Cardinality({u \in Jobs : pc[u] \notin Ended}) < jobs
  /\ Goto(t, "open")
  /\ UNCHANGED <<jobs, faults, disk, own, file, lost, differ, seen, engram>>

-----------------------------------------------------------------------------
(* The simulator.                                                          *)

Output(t) == Outputs[file[t]]

OpenOutput(t) ==
  /\ At(t, "open")
  /\ \/ /\ disk' = [disk EXCEPT ![Output(t)] = [content |-> "torn", by |-> t]]
        /\ Goto(t, "rows")
        /\ UNCHANGED faults
     \/ Fault /\ Goto(t, "failed") /\ UNCHANGED disk
  /\ lost' = [lost EXCEPT ![t] = FALSE]
  /\ UNCHANGED <<jobs, own, file, differ, seen, engram>>

WriteRows(t) ==
  /\ At(t, "rows")
  /\ \/ Goto(t, "close") /\ UNCHANGED <<faults, lost>>
     \/ Kind[Output(t)] = "checked" /\ Fault /\ Goto(t, "failed") /\ UNCHANGED lost
     \/ Kind[Output(t)] = "unchecked" /\ Fault /\ Goto(t, "close")
          /\ lost' = [lost EXCEPT ![t] = TRUE]
  /\ UNCHANGED <<jobs, disk, own, file, differ, seen, engram>>

(* Fault: small files are not closed; their rows stay in the buffer.       *)
WrittenUnflushed(t, f) == IF lost[t] \/ Kind[f] = "small" THEN {"torn"} ELSE {"new"}

(* What is in a file when t has written all of it.  A small file is then   *)
(* whole; a large one that another has opened since may have a gap.        *)
Written(t, f) ==
  IF lost[t] THEN {"torn"}
  ELSE IF Kind[f] = "small" \/ disk[f].by = t \/ disk[f].content = "new" THEN {"new"}
  ELSE {"new", "torn"}

AfterOutput(t) == IF file[t] = Len(Outputs) THEN "check" ELSE "open"

(* Fault: the next file is written whether or not this one was.            *)
CloseOutputUnchecked(t) ==
  /\ At(t, "close")
  /\ \/ /\ \E content \in Written(t, Output(t)) :
             disk' = [disk EXCEPT ![Output(t)].content = content]
        /\ UNCHANGED faults
     \/ Fault /\ UNCHANGED disk
  /\ file' = [file EXCEPT ![t] = @ + 1]
  /\ Goto(t, AfterOutput(t))
  /\ UNCHANGED <<jobs, own, lost, differ, seen, engram>>

CloseOutput(t) ==
  /\ At(t, "close")
  /\ \/ /\ \E content \in Written(t, Output(t)) :
             disk' = [disk EXCEPT ![Output(t)].content = content]
        /\ file' = [file EXCEPT ![t] = @ + 1]
        /\ Goto(t, AfterOutput(t))
        /\ UNCHANGED faults
     \/ Fault /\ Goto(t, "failed") /\ UNCHANGED <<disk, file>>
  /\ UNCHANGED <<jobs, own, lost, differ, seen, engram>>

-----------------------------------------------------------------------------
(* The checkers.                                                           *)

(* Write a file of the checker's own, as a whole.  The statistics of the   *)
(* component model are two files, written one after the other.             *)
WriteOwn(t, f, next) ==
  \/ own' = [own EXCEPT ![t][f] = "new"] /\ Goto(t, next) /\ UNCHANGED faults
  \/ Fault /\ Goto(t, "failed") /\ \E c \in {own[t][f], "torn"} : own' = [own EXCEPT ![t][f] = c]

(* The checkers of the event loop run, or fail.                            *)
RunChecker(t) ==
  /\ At(t, "check") /\ Targets[t] # Component
  /\ \/ /\ WriteOwn(t, "trace", "stats")
        /\ \E D \in Differences :
             differ' = [differ EXCEPT ![t] = D \cap ToSet(MetricsOf(Targets[t]))]
     \/ Goto(t, "failed") /\ UNCHANGED <<faults, own, differ>>
  /\ UNCHANGED <<jobs, disk, file, lost, seen, engram>>

(* The component model opens its trace, loads the Engram events and runs   *)
(* all stages; any of these may fail.                                      *)
RunComponent(t) ==
  /\ At(t, "check") /\ Targets[t] = Component
  /\ own' = [own EXCEPT ![t].trace = "torn"]
  /\ \E f \in EventFiles :
       \/ /\ ~LoadFails(f)
          /\ \E s \in Sorted(f) : engram' = [file |-> f, left |-> s, rows |-> << >>]
          /\ \E D \in Differences : differ' = [differ EXCEPT ![t] = D]
          /\ Goto(t, "emit")
       \/ Goto(t, "failed") /\ UNCHANGED <<differ, engram>>
  /\ UNCHANGED <<jobs, faults, disk, file, lost, seen>>

(* write_engram_events.                                                    *)
EmitEvent(t) ==
  /\ At(t, "emit") /\ engram.left # << >>
  /\ \/ /\ engram' = [engram EXCEPT
                        !.rows = Append(@, TraceRow(engram.file, Head(engram.left),
                                                    StageEvents + Len(engram.rows))),
                        !.left = Tail(@)]
        /\ UNCHANGED <<faults, pc>>
     \/ Fault /\ Goto(t, "failed") /\ UNCHANGED engram
  /\ UNCHANGED <<jobs, disk, own, file, lost, differ, seen>>

(* Nothing looks at the result of closing the component model's trace.     *)
CloseTrace(t) ==
  /\ At(t, "emit") /\ engram.left = << >>
  /\ \/ own' = [own EXCEPT ![t].trace = "new"] /\ UNCHANGED faults
     \/ Fault /\ UNCHANGED own
  /\ Goto(t, "stats")
  /\ UNCHANGED <<jobs, disk, file, lost, differ, seen, engram>>

WriteStats(t) ==
  /\ At(t, "stats")
  /\ WriteOwn(t, "stats", "read")
  /\ UNCHANGED <<jobs, disk, file, lost, differ, seen, engram>>

AllRead(t) == Len(seen[t]) = Len(MetricsOf(Targets[t]))

(* read_metric_ll: the file is opened again for every metric, and one that *)
(* is not in it, or not yet, reads as -1.  A file that could not be closed *)
(* may hold some of them.                                                  *)
ReadMetric(t) ==
  /\ At(t, "read") /\ ~AllRead(t)
  /\ \E value \in CASE disk[EventStats].content = "absent" -> {"missing"}
                    [] disk[EventStats].content = "torn" -> {"missing", "new"}
                    [] disk[EventStats].content = "old" -> {"old"}
                    [] disk[EventStats].content = "new" -> {"new"} :
       seen' = [seen EXCEPT ![t] = Append(@, value)]
  /\ UNCHANGED <<jobs, faults, disk, own, pc, file, lost, differ, engram>>

(* The comparisons that do not say PASS.  The values of an earlier run may *)
(* well be the same.                                                       *)
NotPass(t) ==
  {n \in DOMAIN seen[t] : seen[t][n] = "missing" \/ Metrics[n] \in differ[t]}

(* The comparison is written; it says PASS or not, the checker succeeds.   *)
(* The component model's second comparison, of its events, is of its own.  *)
WriteCompare(t) ==
  /\ At(t, "read") /\ AllRead(t)
  /\ WriteOwn(t, "compare", "look")
  /\ UNCHANGED <<jobs, disk, file, lost, differ, seen, engram>>

(* The test that runs a target wants files that are not empty and PASS     *)
(* everywhere.                                                             *)
Look(t) ==
  /\ At(t, "look")
  /\ \E empty \in IF own[t].trace = "torn" THEN BOOLEAN ELSE {FALSE} :
       Goto(t, IF NotPass(t) = {} /\ ~empty THEN "passed" ELSE "failed")
  /\ UNCHANGED <<jobs, faults, disk, own, file, lost, differ, seen, engram>>

(* make has ended all targets that it is going to start.                   *)
MakeEnds ==
  /\ \A t \in Jobs : pc[t] \in Ended
  /\ (\E t \in Jobs : At(t, "waiting")) => \E t \in Jobs : At(t, "failed")
  /\ UNCHANGED vars

Step(t) ==
  \/ Begin(t) \/ OpenOutput(t) \/ WriteRows(t) \/ CloseOutput(t)
  \/ RunChecker(t) \/ RunComponent(t) \/ EmitEvent(t) \/ CloseTrace(t)
  \/ WriteStats(t) \/ ReadMetric(t) \/ WriteCompare(t) \/ Look(t)

Next == (\E t \in Jobs : Step(t)) \/ MakeEnds

Spec == Init /\ [][Next]_vars

-----------------------------------------------------------------------------
(* Properties.                                                             *)

(* A target passes only if its checker's run agrees with the event         *)
(* backend, by metrics that a simulator of this make wrote, never by what  *)
(* an earlier run left in results/, and leaves statistics and comparison   *)
(* of this run; its trace is whole unless it is the component model's,     *)
(* whose closing nobody checks.  If all targets pass, every file of the    *)
(* simulator is of this make and whole, whoever wrote it last; except for  *)
(* rows lost in a file whose writer does not look.                         *)
VerdictSound ==
  /\ \A t \in Jobs : At(t, "passed") =>
       /\ AllRead(t) /\ \A n \in DOMAIN seen[t] : seen[t][n] = "new"
       /\ differ[t] = {}
       /\ own[t].stats = "new" /\ own[t].compare = "new"
       /\ own[t].trace = "new" \/ (Targets[t] = Component /\ faults > 0)
  /\ (\A t \in Jobs : At(t, "passed")) =>
       \A f \in ToSet(Outputs) :
         \/ disk[f].content = "new"
         \/ disk[f].content = "torn" /\ Kind[f] = "unchecked" /\ faults > 0

(* A target whose comparison is written fails for a reason: the checker's  *)
(* run differs, or a write failed.  Only make -j can fail it for none,     *)
(* when the simulator of another target has just emptied the statistics.   *)
AlarmsReal ==
  \A t \in Jobs :
    (At(t, "failed") /\ AllRead(t)) =>
      \/ differ[t] # {}
      \/ faults > 0
      \/ jobs > 1 /\ \E n \in DOMAIN seen[t] : seen[t][n] = "missing"

(* When the overlay is written, its rows are the lines that name the       *)
(* platform and have all columns, each once and by start, numbered on from *)
(* the stages' rows; with the malformed ones they make up the rows of the  *)
(* platform; and the comparison says PASS only if no line of the platform  *)
(* was left out and none waits.                                            *)
OverlayExact ==
  (engram.left = << >> /\ ~NoEvents(engram.file)) =>
    LET f     == engram.file
        rows  == engram.rows
        named == {n \in 2..Len(f) : f[n].fields >= f[1].platform /\ f[n].platform = Platform}
    IN  /\ ToSet([i \in DOMAIN rows |-> rows[i].source])
             = {n \in named : f[n].fields >= f[1].fields}
        /\ \A i, j \in DOMAIN rows : i < j =>
             /\ rows[i].source # rows[j].source
             /\ rows[i].event_cycle <= rows[j].event_cycle
             /\ rows[j].event_id - rows[i].event_id = j - i
        /\ rows # << >> => rows[1].event_id = StageEvents
        /\ Loaded(f).platform_rows = Len(rows) + Loaded(f).malformed
        /\ EngramFailures(Loaded(f), Len(rows)) = {} =>
             \A n \in named : \E i \in DOMAIN rows :
               rows[i].source = n /\ Cycle(f[n].visible) = 0
=============================================================================
