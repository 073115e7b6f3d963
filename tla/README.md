# Verification of the IFC simulator

This directory holds a TLA+ model of the IFC Cambricon-LLM simulator (its
command schedulers first of all), the TLC configurations that check it on small
instances and the proofs TLAPS checks for every instance. Paths below are
relative to the repository; `src/...` is its C code, `systemc/...` its C++ code.

## 1. The system

The simulator turns a platform (channels, chips per channel, dies per chip,
planes per die, clocks) into a stream of in-flash-computing commands and
schedules that stream on the flash resources, several times over, with
backends that are meant to confirm each other.

| Part | Source | State it keeps | Operations |
|---|---|---|---|
| command stream | `src/ssdsim_ifc.c` 482-553, mirrored in `systemc/ifc_hw_cycle_model.cpp` 321-356 | the command array | nested loops over tiles, slices and channels; append, refused when the array is full |
| stage rules | `src/ssdsim_ifc.c` 555-724, mirrored in `ifc_hw_cycle_model.cpp` 196-401 | four tables of owners: channel, chip, plane, compute core | stage of a command, its duration, resources free / reserve / release |
| event backend | `src/ssdsim_ifc.c` 804-909 | clock, command states, resource tables, counters | completion pass, issue pass, choice of the next event |
| ready-time backend | `src/ssdsim_ifc.c` 143-480 | the cycle each resource is ready | submit a command: its stages are placed one after the other |
| cycle controller | `src/controller.c` 388-583 | per command its stage and remaining cycles; active command per channel and plane | four passes per cycle |
| full-row scheduler | `src/controller.c` 123-200, 665-907 | ready times, an open-addressing hash table of issues per cycle | place a stage, submit, interleave slices |
| sample schedule | `src/controller.c` 220-386 | busy-until times (floating point) | submit |
| hardware-cycle checker | `systemc/ifc_hw_cycle_model.cpp` 451-543 | as the event backend | as the event backend, then a comparison of statistics |
| SystemC replay checker | `systemc/ifc_hw_cycle_systemc.cpp` | as the event backend, in one SystemC process | as the event backend; the clock moves by a wait |
| SystemC component model | `systemc/ifc_component_systemc.cpp` | controller: command table; fabric: busy units, stage processes; two FIFOs | dispatch rounds, module-clock waits, draining of completions; spawning and ending of stages |
| Engram overlay | `systemc/ifc_component_systemc.cpp` 110-116, 188-407, 853-900 | the events of a file | filter by platform, sort, append to the trace, compare |
| latency model | rest of `src/simulator.c`, `src/profiles.c` | the rows of the run and the summary of their errors | tile model, efficiencies, TPOT (formulas); loop over models and platforms |
| operator trace | `src/simulator.c` 63-213, 763-868 | ready times of three engines, statistics | 13 operators per layer placed one after the other, twice |
| configuration | `src/config.c`, `src/main.c` | the configuration structure | load defaults, load four CSV files |
| analysis and reports | `src/analysis.c`, `src/plots.c`, rest of `src/simulator.c` | the best contexts so far; files in `results/` | sweep over contexts, summaries per platform and model, checks; write files |
| audit targets | `Makefile` 34-62 with `tests/test_simulator.c` | files in `results/` | run the simulator, run a checker, look at its comparison |

How they interact: `main` loads the configuration, `ifc_simulate_config` calls
the full-row scheduler once per model and platform, and
`ifc_write_outputs_config` runs each backend once on the first platform.  All
of these are sequential calls on separate state.  The C++ checkers read the
same platform file and compare their statistics with those the event backend
wrote.  The one place where processes run side by side is the component model:
the controller sends stages through `issue_fifo` to the fabric, the fabric
spawns a process per stage and sends completions back through `done_fifo`, and
the SystemC kernel decides who runs when.  The programs meet in `results/`:
each of `make`'s audit targets runs the simulator, which writes all its files
there, and then a checker, which reads one of them and writes its own; under
`make -j` the targets do so at the same time.

What is hard in this code:

* The event loop releases everything a command holds between two of its
  stages and then lets every waiting command compete. That a chip serves its
  commands in order, so that a page that was read is still there when it is
  computed on, follows only from the scan order and from every stage holding
  its chip. Nothing in the code says so.
* The loop jumps from event to event and recognises a completion by equality
  with the clock. A jump past an end would lose a stage; a cycle without an
  event aborts the run.
* In the component model two modules keep a table each of the same resources
  and learn of changes through FIFOs that show nothing before the next delta
  cycle. Completions of the same time arrive over several delta cycles in any
  order. While the controller waits for its module clock it reads nothing.
* The cycle controller steps every cycle with one countdown per command for
  two services, and four passes that see each other's changes. It is meant to
  give the times of a simple busy-until rule.
* The backends with ready times update four tables by hand after each stage,
  in four places. A slice ignores the ready time of the plane it reads.
* The full-row scheduler counts the stages issued in each cycle in an
  open-addressing hash table that nobody checks for being full, with a probe
  loop nobody bounds, and mixes two kinds of commands by a rounded proportion.
* The operator trace is computed twice by code written twice; the statistics
  collected are then overwritten by the totals they should have.
* The errors of the rows are summarised by four loops written four times: by
  the run, by the sweep at each context, per platform and per model. The best
  contexts are kept in one pass, and the contexts within the guardrails need
  not be an interval.
* Two parsers, in C and in C++, read the platform file by different rules.
* `results/` outlives a run. A checker could compare itself with statistics
  that an earlier simulator left there, or that another target is writing.
* Failures: a row that cannot be written ends a run in its middle; a file that
  is at fault in its middle leaves the configuration half overwritten; some
  writers look at no `fprintf`, and one at no `fclose`.

Correctness, per part:

* command stream: exactly the intended commands, refused exactly when they do
  not fit.
* event backend: resources are exclusive and never leak; chips serve in order;
  the clock stops at every end and nothing idles; the run ends and is never
  aborted; the counters are true.
* component model: no stage is lost or run twice between the modules; the
  fabric is never oversubscribed; lateness only if a round was cut; every run
  stops with nothing in flight.
* both of these: one promise, `ChipService` (section 2).
* ready-time backend, full-row scheduler: the stages form a list schedule
  (`ListSchedule`), the second one's delayed by full cycles only; no cycle
  issues more than the width, the hash table is exact and every probe ends.
* cycle controller, sample schedule: commands follow the busy-until rule
  (`ControllerRule`), the tiles of the second do not overlap.
* operator trace: statistics and trace agree.
* configuration: what is simulated is never a mixture of a file and defaults,
  and the derived peak does not depend on the order of lines.
* analysis: the four summaries say the same of the same rows, and what the
  sweep kept is the best there was.
* audit: a target passes only on the strength of this run's files, whichever
  targets run beside it and whichever write fails, and fails only for a
  reason; the checker has read the platform that was simulated; the overlay
  has each event of the platform once.

## 2. The modules

| Module | What it is |
|---|---|
| `IfcStages` | constants, platforms, commands, stages, resources, the command stream in closed form |
| `CommandStream` | the stream of a platform as the state that building and serving it share |
| `CommandBuilder`, `MCCommandBuilder` | the loops that build the stream, one append a step |
| `ChipService` | the abstract specification of a backend |
| `CommandTable` | command states and resource tables with what a stage reserves and releases; shared by the loops |
| `EventLoop`, `MCEventLoop` | the event backend |
| `ComponentModel`, `MCComponentModel` | controller, fabric, FIFOs and kernel of the component model |
| `ListSchedule` | the abstract specification of a backend with ready times |
| `ReadyTimes` | the ready tables and what a stage does to them; shared |
| `ReadyBackend`, `MCReadyBackend` | the ready-time backend |
| `FullRow`, `MCFullRow` | the full-row scheduler |
| `ControllerRule` | the trace of a controller and the busy-until rule over it |
| `CycleController`, `MCCycleController` | the cycle-stepped controller |
| `SampleSchedule`, `MCSampleSchedule` | the sample schedule |
| `Totals` | the sum of a table from its first row on |
| `OperatorTrace`, `MCOperatorTrace` | the two passes of the operator trace |
| `ConfigLoad` | the loaders |
| `Reproduction`, `MCConfigLoad` | what is made of a loaded configuration: rows, summaries, sweep, checks; the checkers' parser |
| `EngramOverlay` | the Engram events: filter, order, rows, comparison |
| `AuditRun`, `MCAuditRun` | the audit targets: simulator and checkers as writers and readers of files |
| `IfcStagesProofs` | lemmas about stages, needs, the command stream, and ready tables |
| `EventLoopProofs`, `ComponentModelProofs`, `ReadyBackendProofs`, `FullRowProofs`, `AuditRunProofs` | theorems about the module of that name, with proofs |
| `ControllerProofs` | theorems about `CycleController`, `SampleSchedule`, `CommandBuilder` and `ListSchedule`, with proofs |
| `SimulatorProofs` | theorems about `ConfigLoad`, `Reproduction` and `OperatorTrace`, with proofs |

`EventLoop` and `ComponentModel` both extend `CommandTable`, which extends
`IfcStages`; both instantiate `ChipService` with their active commands for the
commands it has under way. `ReadyBackend` and `FullRow` extend `ReadyTimes`
and instantiate `ListSchedule`; `CycleController` and `SampleSchedule` extend
`ControllerRule`, which with `CommandBuilder` extends `CommandStream`: the three
have one state for the stream, so that their proofs can be in one module. All of
these extend `IfcStages`. `Reproduction` extends
`ConfigLoad`, as `main` goes from the one to the other, and `AuditRun` extends
`EngramOverlay`, which is a part of one of its checkers. `OperatorTrace` shares
only the sums of `Totals` with them: in the program, too, it uses finished data. What
`AuditRun` needs of the backends is their agreement, which a checker's
`differ` leaves open and `ImplementsService` answers.

### Correspondence

`IfcStages`. A command is a record with the fields of `IfcEventCommand`. The
four owner tables become one function from resource names
(`<<"chip", c, x, -1, -1>>`) to owners. Command ids start at 1, so `None` is 0
where the code has -1. `Needs(c, s)` is at once what `event_resources_free`
tests and what `event_reserve_resources` takes: the two functions branch alike.
The stage durations are any positive numbers: `ssdsim_derive_timing` computes
them in floating point, and `ceil_cycles_ssd` never returns less than 1.

`EventLoop`. `pc` names the pass, `i` the loop index. A step is one row of the
trace (`Complete`, `Issue`), the end of a pass (`EndComplete`, `EndIssue`) or
the choice of the next event (`Advance`, with the two error exits and the
limit on iterations). Indices a pass skips are skipped within a step, since
they change nothing. `WriteError` is a row that fails: on a completion before
anything has changed, on an issue after the stage has begun, as in the code.
`pc` ends in one of the function's returns.

`ComponentModel`. `pc` is where the controller is: in a round (`dispatch`),
waiting for the module clock (`clock`), for a completion (`read`), for the
zero-time wait (`delta`), draining (`drain`), or stopped. `wake` is the set of
stage processes with the time each waits for. A FIFO has the items the reader
sees, those written and the number read in the current delta cycle; `Update`
is the kernel's update phase. `NextDelta` and `NextTime` are the kernel; they
run only when no process can. Processes are cooperative, so while the
controller is inside a round or draining no other process takes a step.
Time is in ticks (half a nanosecond for the default clocks), so that the cycle
and the module clock are both whole.

`ChipService`. A command starts a stage when no stage under way needs one of
its resources and every earlier command of its chip has ended; later its stage
finishes. No clock, no passes, no queues. Both detailed specifications
implement it: `ImplementsService`.

`ReadyBackend`. A step is one stage of the command being submitted, which is
one `write_stage`. `Start` keeps what each stage looks at: a computation takes
the end of its array read, which the code has in a local variable, and only
the compute unit's ready time. `Occupy` sets the ready times of everything a
stage uses. Whether that is enough is what `ImplementsListSchedule` asks.

`FullRow`. A step is one probe of the hash table (`NewBucket`, `JoinBucket`,
`NextBucket`, `LaterCycle`), one placement of a stage, or one turn of the loops that choose the
next command. The hash is a function given at the start: three are tried, one
of them mapping every cycle to the same bucket. Beyond the cycles it is
tabulated for it is 0, so that every hash can be written as a finite function.
`BucketSlack` stands for the 1024 extra buckets. The doubling loop that sizes
the table is one operator, the least power of two that is enough. The demands are those after
the code's rounding of floating-point totals.

`CycleController`. A step is one of the four passes of a cycle. A pass that
scans commands by index gives each free resource to the first command that
waits for it (`Taking`); the two passes at the end of a cycle scan resources,
each with its own command, so that their order does not matter. The guard is
`GuardLimit` for the code's billion cycles.

`SampleSchedule`. A step is one submitted command. The code's nanoseconds are
doubles; natural numbers here.

`ControllerRule`. A command crosses its channel after every earlier command of
the channel, and is then read after every earlier read of its plane. It speaks
about the recorded times only.

`OperatorTrace`. A step is one operator; first the pass that collects
statistics, then the one that writes rows. Work is counted in three-hundredths
so that all shares of the code (percentages, thirds) are whole.

`ConfigLoad`. A file is a sequence of lines, a line a number of columns and a
value; a step is one line. `files` are the files given on the command line and
`tables` what is in memory. Of the keys of the system file only those of the
peak throughput and the context are modelled.

`Reproduction`. The loaders' steps, then a step per row (`SimulateRow`), then
one per context (`SweepContext`). A row is a weight time, the same at every
context, and an attention time in proportion to the context: all that the
sweep's rescaling and the errors depend on. Doubles are whole numbers with
rounding divisions, and a mean is kept as its sum, since it is only compared
(with `9 * IFC_ROW_COUNT`, and with other means). The peak and the context
come from the loaded configuration. Summaries per platform and model are
operators: nothing runs between them. `ParsePlatform` is the C++ parser, which
gives the columns its fields are taken from.

`EngramOverlay` has no state; `AuditRun` uses its operators where the component
model does. A line has the number of its fields, so that short rows can be
told from whole ones. `Sorted` is every order `std::sort` may leave.

`AuditRun`. A target is a process: the simulator's files are opened, written
and closed one after the other, then the checker runs and writes its trace and
statistics, reads each metric (the file is opened anew for each, 586), writes
the comparison, and the test looks at it. For `test` itself the audit is the
same: `tests/test_simulator.c` 301-320, 661-666. A file is whole, torn, or left by an
earlier run. What a writer may fail to notice depends on its kind: of a small
file everything is in the buffer until `fclose`, whose result is looked at; of
a large one `fprintf` may fail, and some writers look. The files of the
component model's statistics are one step, as is a checker's whole schedule:
`differ` is any of the given sets of metrics. `make` gives no
`--engram-events`; the model tries it with the program's option, the files and
the schedule being independent of each other.

Left out on purpose: the text of rows and files and the opening and closing of
files (an open that fails returns before anything happens);
`stage_start_cycle` and `stage_duration_cycles`, which are only printed;
the comparison with `IFC_SSDSIM_INF_CYCLE` as a number (`NextEvents = {}`
stands for it); the 4096 entries of `done_fifo`, which holds at most one stage
per chip; signals and per-class counters.

Definitions whose comment begins with "Fault:" are plausible mistakes in the
code. No specification uses them; putting one in the place of the definition
that follows it makes the property it is listed with fail.

## 3. What TLC checks

| Run | Instance | States | What it shows |
|---|---|---|---|
| `event_grid` | every platform with 1 or 2 channels, chips, dies and planes, and one refused; 6 tiles in groups of 2; three sets of durations; rows may fail | 15,291 | the safety properties, the two action properties, termination and the refinement of `ChipService` |
| `component_small` | 1 or 2 channels with 1 or 2 chips and one refused; issue width 1, 2, 4; depth 1, 4; a module clock shorter and one longer than a cycle; rows may fail | 49,149 | the safety properties of the two modules together, that every run stops, the refinement |
| `builder_small` | 54 platforms, 7 tiles in groups of 3 (a last group stays incomplete), an array of 30 commands that overflows for some | 1,962 | the loops build `BuildCommands` |
| `ready_grid` | the platforms and durations of `event_grid` | 3,554 | exact ready tables and statistics; a list schedule without delay |
| `fullrow_small` | four platforms of up to three channels and one refused, issue width 2 (the smaller of 3 and 2), six demands with none, fewer and more slices than computations, two clocks, three hashes, a failing allocation, an efficiency of 0 (refused) and a positive one | 31,066 | the hash table, the reported counters, the width, the proportion, that probes end; slices find their plane idle; a list schedule with delays |
| `cycle_grid` | the platforms of `event_grid`, three sets of service times | 4,819 | the rule of `ControllerRule`, and that the loop does not end by its limit; tables and stages agree |
| `sample_grid` | the platforms of `event_grid`; array reads much longer and shorter than the transfers | 674 | the rule; tiles do not overlap |
| `trace_small` | five models of one to three layers on both sides of the switch of the weight split, three sets of rates, failing rows | 1,215 | statistics and trace agree |
| `config_small` | two models, two platforms, a sweep of six contexts; 11 models files, 10 platforms files, 5 reference files, and system files of up to three keys in every order, each also missing or not given | 371,373 | nothing half-loaded is simulated; the peak depends on the last values only; the summaries agree; the sweep finds the best; the checkers read the same platform |
| `audit_small` | the targets `systemc-cycle` and `systemc-component`, one after the other and at once; three files, one of each kind; `results/` empty or left by an earlier run; one failing write; seven event files | 624,494 | targets pass and fail for a reason; the overlay is exact |
| `component_narrow` | the default platform and its cycle counts, `--issue-width 1` | violation | the controller's timing check fails (section 5) |
| `config_peak` | as `config_small` | violation | the peak is not derived when the file does not give it (section 5) |

Why the bounds are enough: two of each dimension give two commands that share
a channel but no chip, a chip but no plane, a plane, or nothing, which is every
case `Needs` distinguishes; three groups reuse a chip after a slice. The
durations make ends coincide (all equal), interleave (transfers that end while
another chip reads) and lie far apart (the default platform). Widths and depths
lie below, at and above the number of chips, so that rounds are cut by the
width, by the FIFO, and not at all. For the full-row scheduler a width of two
against up to three channels makes stages compete for a cycle; a slack of one
bucket makes the table as full as it can get; the constant hash makes every
probe walk over the buckets of other cycles. The files of `config_small` have
each fault a loader tests for, early, late and behind a blank line, and for
the C++ parser an empty column with and without a surplus one; its times and
references make the contexts within the guardrails none, an interval, and an
interval with a hole, with ties for the best. In `audit_small` two targets are
enough for one to open a file while the other is at any of its steps; a third
could only do what either does. A second failing write could only end another
target: a program stops at the first it notices. Three files are one of
each kind of writer, with the statistics in the middle, so that a simulator
can be before, in and after them.

The properties:

* `OwnersExact`: an active stage owns everything it needs and nothing else is
  owned. It fails if a release misses a table or frees another's entry.
* `ChipInOrder`: once a command has started all earlier ones of its chip are
  done.
* `NoAbort`, `Completes`: the error exits are unreachable, the run ends.
* `ClockStopsAtEnds`, `WorkConserving`: the clock moves to the earliest end,
  and only when every waiting stage is blocked.
* `CountersExact`: the counters of rows and commands against the states; no more
  commands are reported active at once than there are chips, and the last event
  cycle is the clock, at the end that of the last completion.
* `OnePlace`: a stage under way is in exactly one of issue FIFO, stage
  process, completion FIFO.
* `UnitsExact`: in the component model the controller's tables are exact
  (`OwnersExact` again), the fabric's busy set is exact, and it is within what the
  controller holds.
* `LateOnlyIfCut`, `StopsClean`: the controller's timing check fails only
  after a cut round, no round is cut if width and depth offer every chip a
  place; the kernel never runs out of events before the controller stops it, and
  a finished run has nothing in flight.
* `BuildsStream`: the builder appends the closed form every other module uses.
* `ReadyExact`: a ready time is the end of the last stage that used the
  resource. `SlicesFindPlaneIdle`: no stage of a plane overlaps a slice that
  transfers from it, though slices ignore its ready time; checked of the
  ready-time backend and of the full row.
* `ImplementsListSchedule`: a stage starts exactly when the earlier stages it
  shares a resource with have ended (ready-time backend), or later (full row).
* `TableExact`, `WidthRespected`: the hash table counts each cycle once and
  exactly, and the issues, the cycles used and the last cycle reported are those
  of the rows; no cycle issues too many, and a stage passes over full cycles only.
  `Completes` of `FullRow`: every probe ends, the table is never full.
* `SlicesSpread`: slices never lead or lag their proportion by more than half
  a slice, and none is left when the computations are out.
* `ReportExact`: the statistics a backend reports against its rows.
* `OnSchedule`: every time recorded is that of the busy-until rule, and the
  cycle controller's loop ends with its last command, not with its limit.
  `TilesInTurn`: a tile is issued when all earlier ones are complete.
* `TotalsCollected`, `TraceAddsUp`: totals written over the statistics are
  what was collected; the second schedule agrees with the first, and the
  summary's bursts with the trace's where operators read whole bursts.
* `AllOrNothing`, `PeakOfLastValues`: the configuration that is simulated.
* `SummariesAgree`, `FitIsBest`: the four summaries at the run's context, and
  that the sweep kept the first best contexts and both ends of the window.
* `CheckerAgrees`: if both parsers accept a platform file they read the same
  columns of the same line, but for the case named in section 5.
* `VerdictSound`: a target that passes has compared only what a simulator of
  this `make` wrote, and leaves its own files whole; when all pass, the
  simulator's files are whole. Two exceptions, each a line of the code, are
  part of the property. `AlarmsReal`: a target whose comparison was written
  fails because of a difference or a failed write, with one exception under
  `make -j` (section 5).
* `OverlayExact`: each event of the platform is appended once, in order and
  numbered on from the stages, and the comparison hides no dropped row.

The other type invariants are stated for the proofs: those of `ReadyBackend`,
`FullRow`, `ComponentModel` and `CycleController` are theorems, those of
`CommandBuilder`, `SampleSchedule` and `AuditRun` parts of the invariants of
section 4. The runs check that of `EventLoop`.

Fairness. `EventLoop` and `FullRow` are functions: once called they run until
they return, which is weak fairness of `Next`. `sc_start` likewise runs
the kernel until it is stopped or has nothing left to wake, and the kernel
always takes some enabled step, so `ComponentModel` assumes weak fairness of
`Next` only: no process is favoured.

## 4. What is proved

All for every set of platforms and timings within the array bounds
(`LimitsAssumption`, `EventLoopAssumption`: the limit on iterations exceeds
the stages of a full command array, as 10,000,000 exceeds 4 * 4096 + 1;
`ReadyBackendAssumption` and `FullRowAssumption` only type the constants).

`IfcStagesProofs` has the facts about stages and resources: what a stage needs
is a set of resources of its command's chip, two stages on one chip always
need that chip, and `BuildCommands` is a sequence of commands.

`EventLoopProofs` proves each safety and action property of `event_grid` as a
theorem of `Spec`, and the refinement:

| Theorem | Property |
|---|---|
| `TypeCorrect` | `TypeOK` |
| `ResourcesExact` | `OwnersExact` |
| `ChipsInOrder` | `ChipInOrder` |
| `NeverAborts` | `NoAbort` |
| `CountersCorrect` | `CountersExact` |
| `ClockCorrect` | `ClockStopsAtEnds` |
| `NoIdling` | `WorkConserving` |
| `Implements` | `ImplementsService` |

They follow from one inductive invariant, `IInv` (theorem `Invariance`). The
properties alone are not inductive:

* that a chip serves in order needs to know why the issue pass never starts a
  later command first: `PassBlocks` says that during the issue pass every
  command behind the index either is not waiting or finds one of its resources
  held. When the pass starts command `k`, an earlier unfinished command of
  the same chip would be active, so hold the chip `k` needs, or waiting and
  blocked by a resource of its chip held by an even earlier one, and so again
  hold the chip;
* that the clock misses nothing needs `EndsAhead`: the ends of active stages
  are not in the past, and outside the completion pass lie ahead;
* that the loop never aborts needs `SomethingRuns`: if a command is unfinished
  when the issue pass ends, the first unfinished command is active or blocked
  by one that is;
* that the guard is never spent needs `GuardCounts`: each iteration but the
  first ended at least one stage, and there are at most four per command
  (`StreamFits`);
* `StageAgrees` ties the status of a command to its stage index.

The counters that keep an extreme, the greatest number of active commands and
the cycle of the last event, need a second invariant on top of the first,
`ReportInv`: a chip serves one stage at a time (`ActiveFitChips`), and when a
completion pass is through something has ended in this cycle, because
`Advance` stopped the clock at an end.

`ComponentModelProofs` proves the safety properties of `component_small` and
the refinement, for every platform, timing, issue width, FIFO depth and module
clock:

| Theorem | Property |
|---|---|
| `TypeCorrect` | `TypeOK` |
| `OnePlaceEach` | `OnePlace` |
| `UnitsCorrect` | `UnitsExact`, with the controller's `OwnersExact` |
| `OnTimeUnlessCut` | `LateOnlyIfCut` |
| `EndsClean` | `StopsClean` |
| `TimeForward` | simulated time never runs backwards |
| `Implements` | `ImplementsService` |

The controller's half of the invariant is that of the event loop
(`StageAgrees`, `OwnersExact`, `ChipInOrder`, `PassBlocks`); the other half
follows a stage through the model:

* `PlacesSplit`: the stages on their way to the fabric (the issue FIFO), those in
  it and those on their way back (the completion FIFO) are different active
  commands, none twice, and until a row cannot be written they are all of them.
  `CountsExact` ties the counters to the commands;
* `UnitsOfFabric`: the units the fabric holds busy are those of the stages in
  it. Two of them never have the same unit, because a unit is a resource of
  the controller and `OwnersExact` gives it to one of the two; so the fabric's
  own check cannot fire;
* `Punctual`: every place keeps the cycle in which the controller expects the
  end: a stage wakes at a whole cycle, and the nearest cycle to a time (`Cycle`)
  is then that one. Ticks are exact; that SystemC rounds a wait to picoseconds
  is not in the model (section 6). What remains is
  when the controller reads the completion: `UncutOnTime` says that until a round
  is cut short it reads it in the cycle of the end. With a width and a depth of
  the number of chips no round is cut (`WideUncut`), since a round issues no more
  than one stage for each chip (`IssuedActive`);
* `AwaitsStage`: the controller waits for a completion only while a stage is under
  way. A round that ends with commands left has gone by each that waits, so a stage
  under way holds what it needs. With `PlacesSplit` it follows that when nothing
  can run and nothing is to wake up, the controller has stopped: the model never
  starves. `AlarmsAhead`, that every wait ends now or later, is what `TimeForward`
  needs;
* `Verdict` says what the controller's result can be at its end.

`ControllerProofs` proves the properties of `cycle_grid`, `sample_grid` and
`builder_small`, and of every list schedule, for every set of commands and every
rule for delays, that stages sharing a resource never overlap: the promise of
`ListSchedule` is worth implementing.

| Theorem | Of | Property |
|---|---|---|
| `TypeCorrect` | `CycleController` | `TypeOK` |
| `TablesExact` | `CycleController` | `OwnersExact` |
| `ScheduleCorrect` | `CycleController` | `OnSchedule` |
| `SampleFollowsRule` | `SampleSchedule` | `RowsOnTime` |
| `TilesOneByOne` | `SampleSchedule` | `TilesInTurn` |
| `BuilderCorrect` | `CommandBuilder` | `BuildsStream` |
| `Exclusivity` | `ListSchedule` | `Exclusive` |

The cycle-stepped controller counts cycles down; the rule says when a service starts.
`CountdownExact` joins the two: countdown and clock meet at the recorded start
plus the service time. The channels are a pass ahead of the planes, which
`ChannelNow` stands for. `StartsAtLastEnd` says that a service started at the
greatest end of those before it, `NoCycleLost` why it can: a command that waits
for a free resource waits since this very cycle. `Bounded` says that no command
ends later than if all were served one after the other, so that the limit on
cycles does not end the loop (`Verdict`); `CycleControllerAssumption` asks for a
limit beyond that, as 1,000,000,000 is for 4096 commands of up to 244,140 cycles.

The sample schedule keeps two tables and the last completion, the rule looks
at all earlier rows: `BusyExact` says that the tables are the greatest ends of
the rows, and the proposed issue time is the greatest of all completions. The
builder's invariant (`BuilderInvariance`) gives for every turn of its four
nested loops the number of commands in the array, and has the commands so far
equal to the closed form; the rest is division and remainder, of tiles that
do not fill their last group, and the capacity, which is reached
exactly when the closed form is longer than the array.

`ReadyBackendProofs` proves the properties of `ready_grid`, from the lemmas of
`IfcStagesProofs` about ready tables (`PlacingKeeps`: placing a stage at the
greatest ready time of what it needs keeps the tables exact and the stages
exclusive):

| Theorem | Property |
|---|---|
| `TablesExact` | `ReadyExact` |
| `PlanesIdle` | `SlicesFindPlaneIdle` |
| `StatisticsCorrect` | `ReportExact` |
| `Implements` | `ImplementsListSchedule` |
| `TypeCorrect`, `ResourcesExclusive` | `TypeOK`, `RowsExclusive` |

The invariant joins `ReadyMax` (a ready time bounds the ends of the stages that
used the resource and is one of them) with `InStep`: between two stages of a
command everything the first one used is ready at its end. That is what allows
the computation to look at the compute unit alone. `CountsAgree` ties the
counters to the position in the stream.

`FullRowProofs` proves the safety properties of `fullrow_small`, for every
demand, clock, hash and width:

| Theorem | Property |
|---|---|
| `TypeCorrect` | `TypeOK` |
| `TableCorrect` | `TableExact` |
| `PlanesIdle` | `SlicesFindPlaneIdle` |
| `WidthCorrect` | `WidthRespected` |
| `SlicesCorrect` | `SlicesSpread` |
| `Implements` | `ImplementsListSchedule` |
| `TableHasRoom` | none of a run: less than half of the table is in use, so that every probe comes to its cycle's bucket or a free one before it has gone round |

The last is what `Completes` needs of the table. The stages placed are counted
against the loops (`RowsCounted`: four for every computation, two for every
slice, never more than the demand has), the buckets in use against the stages
(`UsedCounted`), and `BucketCount` is two buckets for every stage of the demand
and the slack.

The invariant adds to the ready tables what a probe relies on and what it has
learnt:

* no cycle gets a second bucket: `Reachable` says that from a cycle's hash to
  its bucket lie only buckets of other cycles, `Probing` that the probe has
  passed only such buckets. A probe that finds a free bucket can therefore
  not have missed its own (`FreeIsNew`): one of the two paths would be the
  beginning of the other. Buckets are never freed, so that both stay true;
* no stage waits past a free slot: `Probing` says that the cycle is a whole
  number of module clocks after the earliest one, and that the cycles between
  are full. A full cycle stays full until the stage is placed, because nothing
  else is placed meanwhile;
* the slices come out even: `Turns` bounds the slices that are out by those
  due, and `DueFacts` is the arithmetic, that rounding to the nearest is off by
  at most half and exact at the end;
* the table has buckets (`BucketCountType`): every number has a power of two
  between itself and its double. That is an induction, done as an argument
  about the least number without one (`LeastOf`, from the well-foundedness of
  `<`), because the induction theorems cannot be cited.

What the scheduler reports is again a second invariant, `ReportInv`: a used
bucket is that of a cycle in which a stage starts, so a cycle that gets its
first bucket is counted once; and a stage that ends after `last_cycle` is one of
the command being placed, whose chip is ready no sooner. `PlanesIdle` needs no
invariant of its own: the stages of the full row are exclusive, and
what uses the plane also holds the chip, which the slice holds
(`ExclusiveFindsPlaneIdle`).

`SimulatorProofs` proves the properties of `config_small`, for all files,
defaults, sizes of tables, times and lengths of the sweep, and of `trace_small`,
for all models and rates:

| Theorem | Of | Property |
|---|---|---|
| `TablesWhole` | `ConfigLoad` | `AllOrNothing` |
| `PeakCorrect` | `ConfigLoad` | `PeakOfLastValues` |
| `CheckerReadsAlike` | `Reproduction` | `CheckerAgrees` |
| `SummariesRight` | `Reproduction` | `SummariesAgree` |
| `FitRight` | `Reproduction` | `FitIsBest` |
| `TotalsRight` | `OperatorTrace` | `TotalsCollected` |
| `TraceRight` | `OperatorTrace` | `TraceAddsUp` |

The files. The invariant (`LoadInvariance`) says of every loader that is through that its
table is the defaults or the whole file (`Whole`), and of the one under way what
its table holds: the rows of the data lines before this one and the defaults
behind them (`TableSoFar`), the last value of a key among the lines before this
one (`KeySoFar`). A loader counts rows where the property counts data lines
(`LinesCount`): that is why a file with too few or too many is refused, however its
blank lines lie. For the checkers' parser `TokensInPlace` says when token
number *k* is column *k*; if the line has the 19 columns and no more, 19 tokens
leave no column empty. `ConfigLoadAssumption` asks that files are lists of lines with a
number of columns, and that the defaults fill their tables.

The sums. All of them are `Total` of a table, a recursive function. The
library's induction theorems cannot be cited, so that its partial sums exist
and are unique (`SumsExist`, `SumsAgree`) is again an argument about the least
number for which they do not or are not; from there on `TotalOfAppend` and
`TotalOfPrefix` give a sum one term more. `PartsAddUp` is the same argument about
a table in parts: the sums of the parts add up to the sum of the whole.

The summaries. `RowsInv` says that the rows are those of the loops so far, that the
summary has their sums, and that its worst case is the first row of greatest error.
At the run's own context every error of the sweep is the run's (`SameContext`),
because an attention time scaled by 1 is itself. For the parts (`PartsRight`)
what is needed is that the rows of a name are the rows of a place in the loops,
which different names give, and that every part has its share of the rows
(`CountAtLeast`). `FitInv` says of each of the three errors that the best so far is
still the start value, all errors being as large, or the first least
(`FirstBest`), and that the window's ends bound what passed (`PassBounds`).
`FitRight` has a premise, `BelowHuge`: some context of the sweep stays below the
start value (1e30 in the code) in each of the three errors. Otherwise the code
names the first context, whatever the errors are. `config_small` meets the
premise in every run that ends.
`ReproductionAssumption` asks for times, references, frequencies and operations per
cycle that are positive and a context that is not negative; the code
does not check that, and divides by them: it would go on with infinities,
which the model has not.

The operator trace. Each pass is a loop over layers and operators, and
`Scheduled` says what it has done after any of its steps in closed form: so many
whole layers and so many operators of the next (`Ran`, `RanCount`, `Took`). At the end
that is the total, because the shares of the 13 operators use up the work of a
layer (`SplitAddsUp`). `Collected` and `Written` tie the statistics and the columns of
the trace to the same numbers, which is why they agree with each other.
`BurstsHold` is the arithmetic of rounding up. `OperatorTraceAssumption` only types
the models and rates.

`AuditRunProofs` proves the properties of `audit_small`, for every list of
targets and files, any number of jobs and of failing writes, and every file of
lookups:

| Theorem | Property |
|---|---|
| `VerdictsSound` | `VerdictSound` |
| `AlarmsCorrect` | `AlarmsReal` |
| `OverlayCorrect` | `OverlayExact` |

* What a checker reads is of this make, because of `OfThisMake`: a file that
  some simulator has opened never again has the content of an earlier run, and
  a checker runs when its own simulator has opened all of them
  (`FilesInTurn`). Others may open a file again meanwhile: that is why a read may
  miss, but not why it may be old.
* `TornForAReason`: a file is incomplete only while the target that opened it
  last will still close it, or after a target failed, or when rows were lost by
  a writer that does not look (`LostUnchecked`). When all targets have passed
  only the last is left.
* `OneAtATime`: with one job the statistics stay whole from the closing on until
  the target ends, so that nothing is missing.
* `CheckOf` says of each checker what it has read and written and what its
  verdict goes by.
* `OverlayInv`: the rows written are those of the first lines of some order that
  the sort may leave, the waiting lines are the others in that order. That
  such an order has every whole line once is `SortedFacts`: an injection
  between sets of one size reaches all; that the comparison sees the longest
  wait is `GreatestIs`, again without an induction.

It assumes (`AuditRunAssumption`) that targets and files are lists, that the
statistics are among the files and are small, and that a file of lookups whose
header has all required columns has the platform's column among its fields
(`csv_index` returns a place in the header). The assumptions of the other modules
are those on the limits, the platforms' dimensions, and the durations.

Only model-checked is liveness (`Completes` of `EventLoop`, `ComponentModel` and `FullRow`), which
is beyond the prover; of the last, `TableHasRoom` is proved, on which the end
of every probe rests.

## 5. Findings

`component_narrow`. After a round that the issue width or the FIFO cuts short
the controller waits one module clock and reads no completions meanwhile
(`systemc/ifc_component_systemc.cpp` 644-660). A stage that ends during the
wait is handled after it. `complete_stage` counts that as a timing violation,
and at the end `run_controller` returns false, so that the program reports a
failed controller. The options are checked only to be positive (989), and
`docs/configuration.md` offers `--issue-width` and `--queue-depth` as controls.
`LateOnlyIfCut` bounds the effect: with a width and a depth of at least the
number of chips it cannot happen.

`config_peak`. `docs/latency_model.md:145` says that a positive
`npu_peak_TOPS` of the system CSV is used, and that otherwise the peak is the
product of frequency and operations per cycle. The product is taken only if
the peak in memory is not positive (`src/config.c:246`), and it starts with
the default's: a file that sets `npu_frequency_MHz` but no peak changes
nothing. A file with `npu_peak_TOPS` 0 does get the product.

Met on the way, decided by no document:

* A row of a table file with more columns than asked for is accepted, because
  the number of fields is capped before it is compared (`src/config.c:30`,
  121). The checkers skip empty fields (`systemc/ifc_hw_cycle_model.cpp` 138).
  A platform row with an empty column among the first 14 and a surplus one at
  its end is accepted by both and read differently: `CheckerAgrees` names it.
* Reference rows are matched to models by position, their model column is not
  read (284). Platforms or models of one name share their rows in the
  summaries of `src/analysis.c` (73); `SummariesAgree` asks for different names.
* The DRAM bursts of `operator_trace_summary.csv` are rounded up once for all
  bytes (`src/simulator.c:209`), those of `operator_trace.csv` for each row
  (796), so that the summary's may be fewer; with the default models, which
  read multiples of 64 bytes, they agree. `TraceAddsUp` says both.
* Under `make -j` a target can fail without any difference: its checker looks
  for a metric in the statistics that another target's simulator has just
  opened, and reads -1. The other direction, a target that passes by another's
  or by old statistics, does not occur: every simulator has written them anew,
  all with the same content, before a checker looks.
* Nothing looks at the closing of the component model's trace (665), nor at
  the `fprintf`s of some tables; a file that a full disk cut short is then
  not noticed.

## 6. Not modelled

* Floating-point formulas (tile model, timing derivation, efficiencies, TPOT,
  ablations): no real arithmetic in the tools. Their results enter the models
  as parameters.
* The content of the reports and plots, and the checks on counters and
  ablations among the reproduction checks: output only. That files may fail to
  be written is in `AuditRun`.
* The scanning of text: lines reach `ConfigLoad` split, the arguments of the
  command line as the files they name. A line is what one `fgets` returns: one
  longer than the loader's buffer (1024 to 4096 bytes, `config.c:98,146,207,255`)
  counts as several. The checkers' buffers for the platform file are as long as
  the loader's, so `CheckerAgrees` compares the same lines.
* The rounding of a SystemC wait to picoseconds (`ifc_component_systemc.cpp:99`).
  It is half a picosecond at most, and all stages of one channel follow one
  another in at most 16 tiles of four stages and 16 slices of two: less than
  a tenth of a nanosecond in a run without cut rounds, which is half a cycle
  only at clocks beyond 5 GHz.
* The keys of the system file other than those of the peak and the context:
  each is one assignment.
* The other unit tests, compiling, the installation of SystemC.
* A process that is killed: nothing is resumed after it, the next run opens
  every file anew; an earlier run's files are in `AuditRun`.

## 7. Plan

Done: every module of section 2; the proofs of section 4.

Left: for liveness, the part that needs no fairness: that every step of a loop
makes a natural number smaller.

## 8. Running it

```
tlc -config event_grid.cfg MCEventLoop.tla
tlc -config component_small.cfg MCComponentModel.tla
tlc -config builder_small.cfg MCCommandBuilder.tla
tlc -config ready_grid.cfg MCReadyBackend.tla
tlc -config fullrow_small.cfg MCFullRow.tla
tlc -config cycle_grid.cfg MCCycleController.tla
tlc -config sample_grid.cfg MCSampleSchedule.tla
tlc -config trace_small.cfg MCOperatorTrace.tla
tlc -config config_small.cfg MCConfigLoad.tla
tlc -config audit_small.cfg MCAuditRun.tla
tlc -config component_narrow.cfg MCComponentModel.tla
tlc -config config_peak.cfg MCConfigLoad.tla
tlapm IfcStagesProofs.tla
tlapm EventLoopProofs.tla
tlapm ComponentModelProofs.tla
tlapm ReadyBackendProofs.tla
tlapm FullRowProofs.tla
tlapm ControllerProofs.tla
tlapm SimulatorProofs.tla
tlapm AuditRunProofs.tla
```
