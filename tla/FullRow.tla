-------------------------------- MODULE FullRow --------------------------------
(***************************************************************************)
(* The full-row scheduler of controller.c                                  *)
(* (ifc_estimate_cycle_weight_stage): all READ_COMPUTE and READ_SLICE      *)
(* commands of a row of the evaluation, spread over the platform and       *)
(* mixed in proportion, are placed stage by stage under ready times.  A    *)
(* stage must also win one of the few issue slots of its cycle: an open-   *)
(* addressing hash table counts the stages issued in each cycle, and a     *)
(* stage that finds its cycle full tries again a module clock later.       *)
(*                                                                         *)
(* One probe of the table is a step.                                       *)
(***************************************************************************)
EXTENDS ReadyTimes, FiniteSets

CONSTANTS
  IFC_MICRO_STAGE_ISSUE_WIDTH, IFC_MICRO_ISSUE_FIFO_DEPTH,    \* 8 and 8
  BucketSlack,        \* buckets beyond two per expected issue (1024)
  Platforms,          \* platforms the scheduler may be called with
  Timings,            \* stage durations it may derive for them
  Demands,            \* numbers of commands of both kinds, after rounding
  Efficiencies,       \* effective efficiencies in percent; only the sign is asked
  Clocks,             \* cycles of a module clock
  Hashes,             \* issue_bucket_hash before the mask; 0 beyond its domain
  AllocMayFail        \* whether the table may fail to be allocated

ASSUME FullRowAssumption ==
  /\ IFC_MICRO_STAGE_ISSUE_WIDTH \in Int /\ IFC_MICRO_ISSUE_FIFO_DEPTH \in Int
  /\ BucketSlack \in Nat \ {0}
  /\ Platforms \subseteq Platform
  /\ Timings \subseteq Timing
  /\ Demands \subseteq [read_compute : Nat, read_slice : Nat]
  /\ Efficiencies \subseteq Int
  /\ Clocks \subseteq Nat \ {0}
  /\ \A h \in Hashes : \A c \in DOMAIN h : c \in Nat /\ h[c] \in Nat
  /\ AllocMayFail \in BOOLEAN

VARIABLES
  platform, demand, timing, dispatch_cycles, hash,    \* what the row is given
  buckets, issue_events, dispatch_rounds,             \* IfcMicroIssueScheduler
  rc, slice_done,     \* commands submitted of each kind
  command, stage,     \* the command being submitted and its stage
  cycle, index,       \* the loop variables of micro_issue_stage
  last_cycle,
  pc                  \* the loop, or how the function returned

inputs == <<platform, demand, timing, dispatch_cycles, hash>>
scheduler == <<buckets, issue_events, dispatch_rounds>>
vars == <<ready, rows, inputs, scheduler, rc, slice_done, command, stage, cycle, index,
          last_cycle, pc>>

Max2(a, b) == IF a > b THEN a ELSE b
Min2(a, b) == IF a < b THEN a ELSE b

issue_width == Max2(1, Min2(IFC_MICRO_STAGE_ISSUE_WIDTH, IFC_MICRO_ISSUE_FIFO_DEPTH))

PowerOfTwo(n) == \A d \in 2..n : n % d = 0 => d % 2 = 0

(* Doubling from 1 until it is enough.                                     *)
NextPowerOfTwo(value) ==
  CHOOSE n \in 1..2 * value + 1 :
    /\ PowerOfTwo(n) /\ n >= value
    /\ \A m \in 1..n - 1 : PowerOfTwo(m) => m < value

(* Fault: the table is sized for one stage in four.                        *)
BucketCountOfCommands(d) == NextPowerOfTwo(d.read_compute + d.read_slice \div 2)

BucketCount(d) ==
  NextPowerOfTwo(2 * (4 * d.read_compute + 2 * d.read_slice) + BucketSlack)

Unused == [used |-> FALSE, cycle |-> 0, count |-> 0]

NoCommand == [opcode |-> "READ_SLICE", channel |-> 0, chip |-> 0, die |-> 0, plane |-> 0]

(* The only caller passes statistics to fill.                              *)
Init ==
  /\ platform \in Platforms /\ demand \in Demands /\ timing \in Timings
  /\ dispatch_cycles \in Clocks /\ hash \in Hashes
  /\ InitReady
  /\ buckets = [b \in 0..BucketCount(demand) - 1 |-> Unused]
  /\ issue_events = 0 /\ dispatch_rounds = 0
  /\ rc = 0 /\ slice_done = 0
  /\ command = NoCommand /\ stage = 0
  /\ cycle = 0 /\ index = 0
  /\ last_cycle = 0
  /\ \E effective_efficiency \in Efficiencies :
       pc \in IF \/ ~PlatformSupported(platform)
                \/ effective_efficiency <= 0
                \/ demand.read_compute + demand.read_slice = 0
             THEN {"refused"}
             ELSE {"compute"} \cup {x \in {"refused"} : AllocMayFail}

-----------------------------------------------------------------------------
(* The loops over the commands.                                            *)

(* cycle_weight_place: over the channels first, then chips, dies, planes.  *)
PlaceAt(opcode, i, plane_offset) ==
  LET group == i \div platform.channels
      lanes == platform.chips_per_channel * platform.dies_per_chip
      lane  == group % lanes
  IN  [opcode  |-> opcode,
       channel |-> i % platform.channels,
       chip    |-> lane % platform.chips_per_channel,
       die     |-> (lane \div platform.chips_per_channel) % platform.dies_per_chip,
       plane   |-> (group \div lanes + plane_offset) % platform.planes_per_die]

Submit(c) ==
  /\ command' = c
  /\ stage' = 0
  /\ pc' = "stage"

SubmitReadCompute ==
  /\ pc = "compute" /\ rc < demand.read_compute
  /\ Submit(PlaceAt("READ_COMPUTE", rc, 0))
  /\ UNCHANGED <<ready, rows, inputs, scheduler, rc, slice_done, cycle, index, last_cycle>>

EndCompute ==
  /\ pc = "compute" /\ rc >= demand.read_compute
  /\ pc' = "trailing"
  /\ UNCHANGED <<ready, rows, inputs, scheduler, rc, slice_done, command, stage, cycle,
                 index, last_cycle>>

(* Fault: the proportion is rounded up.                                    *)
TargetSlicesUp ==
  ((rc + 1) * demand.read_slice + demand.read_compute) \div demand.read_compute

(* The slices due after READ_COMPUTE number rc: the proportion, rounded.   *)
TargetSlices ==
  ((rc + 1) * demand.read_slice + demand.read_compute \div 2) \div demand.read_compute

SubmitReadSlice ==
  /\ \/ pc = "slices" /\ slice_done < TargetSlices
     \/ pc = "trailing" /\ slice_done < demand.read_slice
  /\ Submit(PlaceAt("READ_SLICE", slice_done, 1))
  /\ UNCHANGED <<ready, rows, inputs, scheduler, rc, slice_done, cycle, index, last_cycle>>

EndSlices ==
  /\ pc = "slices" /\ slice_done >= TargetSlices
  /\ rc' = rc + 1
  /\ pc' = "compute"
  /\ UNCHANGED <<ready, rows, inputs, scheduler, slice_done, command, stage, cycle, index,
                 last_cycle>>

Finish ==
  /\ pc = "trailing" /\ slice_done >= demand.read_slice
  /\ pc' = "ok"
  /\ UNCHANGED <<ready, rows, inputs, scheduler, rc, slice_done, command, stage, cycle,
                 index, last_cycle>>

-----------------------------------------------------------------------------
(* micro_issue_stage.                                                      *)

HashOf(c) == (IF c \in DOMAIN hash THEN hash[c] ELSE 0) % Cardinality(DOMAIN buckets)

(* Fault: the stage does not wait for its channel.                         *)
EarliestOfChip == ready[ChipOf(command)]

(* Fault: a transfer waits for its channel, not for its chip.              *)
EarliestOfChannel ==
  Latest({ready[r] : r \in Needs(command, stage) \
                            {x \in {ChipOf(command)} : IsTransfer(StageOf(command, stage))}})

(* All resources of the stage must be free; then the table is asked.       *)
Earliest == Latest({ready[r] : r \in Needs(command, stage)})

BeginStage ==
  /\ pc = "stage"
  /\ cycle' = Earliest
  /\ index' = HashOf(Earliest)
  /\ pc' = "probe"
  /\ UNCHANGED <<ready, rows, inputs, scheduler, rc, slice_done, command, stage, last_cycle>>

bucket == buckets[index]

(* The stage is issued in this cycle; after the last stage of a command    *)
(* its loop goes on.                                                       *)
StageIssued ==
  LET end  == cycle + timing[StageOf(command, stage)]
      last == stage + 1 = StageCount(command)
  IN  /\ Occupy(command, stage, cycle, end)
      /\ issue_events' = issue_events + 1
      /\ stage' = stage + 1
      /\ last_cycle' = IF last THEN Max2(last_cycle, end) ELSE last_cycle
      /\ slice_done' = IF last /\ command.opcode = "READ_SLICE" THEN slice_done + 1
                                                               ELSE slice_done
      /\ pc' = IF ~last THEN "stage"
               ELSE IF rc < demand.read_compute THEN "slices" ELSE "trailing"
      /\ UNCHANGED <<inputs, rc, command, cycle, index>>

NewBucket ==
  /\ pc = "probe" /\ ~bucket.used
  /\ buckets' = [buckets EXCEPT ![index] = [used |-> TRUE, cycle |-> cycle, count |-> 1]]
  /\ dispatch_rounds' = dispatch_rounds + 1
  /\ StageIssued

(* Fault: one stage too many fits in a cycle.                              *)
HasSlotOneMore == bucket.count <= issue_width

HasSlot == bucket.count < issue_width

(* Fault: a bucket found on the way is taken for the cycle's own.          *)
JoinBucketOfAny ==
  /\ pc = "probe" /\ bucket.used /\ HasSlot
  /\ buckets' = [buckets EXCEPT ![index].count = @ + 1]
  /\ UNCHANGED dispatch_rounds
  /\ StageIssued

JoinBucket ==
  /\ pc = "probe" /\ bucket.used /\ bucket.cycle = cycle /\ HasSlot
  /\ buckets' = [buckets EXCEPT ![index] =
                   [used |-> TRUE, cycle |-> cycle, count |-> @.count + 1]]
  /\ UNCHANGED dispatch_rounds
  /\ StageIssued

(* The cycle is full: try a module clock later.                            *)
LaterCycle ==
  /\ pc = "probe" /\ bucket.used /\ bucket.cycle = cycle /\ ~HasSlot
  /\ cycle' = cycle + dispatch_cycles
  /\ index' = HashOf(cycle + dispatch_cycles)
  /\ UNCHANGED <<ready, rows, inputs, scheduler, rc, slice_done, command, stage, last_cycle, pc>>

(* Another cycle's bucket: look at the next one.                           *)
NextBucket ==
  /\ pc = "probe" /\ bucket.used /\ bucket.cycle # cycle
  /\ index' = (index + 1) % Cardinality(DOMAIN buckets)
  /\ UNCHANGED <<ready, rows, inputs, scheduler, rc, slice_done, command, stage, cycle,
                 last_cycle, pc>>

-----------------------------------------------------------------------------

Terminated == pc \in {"ok", "refused"} /\ UNCHANGED vars

Next ==
  \/ SubmitReadCompute \/ EndCompute \/ SubmitReadSlice \/ EndSlices \/ Finish
  \/ BeginStage \/ NewBucket \/ JoinBucket \/ LaterCycle \/ NextBucket
  \/ Terminated

Spec == Init /\ [][Next]_vars

(* The function runs to its return once called.                            *)
FairSpec == Spec /\ WF_vars(Next)

-----------------------------------------------------------------------------
(* Properties.                                                             *)

PlacedCommand ==
  [opcode : {"READ_COMPUTE", "READ_SLICE"},
   channel : 0..(IFC_SSDSIM_MAX_CHANNELS - 1),
   chip : 0..(IFC_SSDSIM_MAX_CHIPS_PER_CHANNEL - 1),
   die : 0..(IFC_SSDSIM_MAX_DIES_PER_CHIP - 1),
   plane : 0..(IFC_SSDSIM_MAX_PLANES_PER_DIE - 1)]

(* Every variable has its type.                                            *)
TypeOK ==
  /\ ReadyTypeOK(PlacedCommand)
  /\ buckets \in [0..BucketCount(demand) - 1 ->
                    [used : BOOLEAN, cycle : Nat, count : 0..issue_width]]
  /\ issue_events \in Nat /\ dispatch_rounds \in Nat
  /\ rc \in 0..demand.read_compute /\ slice_done \in 0..demand.read_slice
  /\ command \in PlacedCommand /\ stage \in 0..4
  /\ cycle \in Nat /\ index \in DOMAIN buckets /\ last_cycle \in Nat
  /\ pc \in {"compute", "slices", "trailing", "stage", "probe", "ok", "refused"}

StartedAt(c) == {j \in DOMAIN rows : rows[j].start = c}
Starts == {rows[j].start : j \in DOMAIN rows}

BucketsExact ==
  LET Used == {b \in DOMAIN buckets : buckets[b].used}
  IN  /\ \A b \in Used : buckets[b].count = Cardinality(StartedAt(buckets[b].cycle))
      /\ \A c \in Starts : \E b \in Used : buckets[b].cycle = c
      /\ \A a, b \in Used : buckets[a].cycle = buckets[b].cycle => a = b

ReportExact ==
  /\ issue_events = Len(rows)
  /\ dispatch_rounds = Cardinality(Starts)
  /\ pc \notin {"stage", "probe"} =>
       last_cycle = Latest({0} \cup {rows[j].end : j \in DOMAIN rows})

(* The hash table counts the stages issued in each cycle, exactly and once *)
(* per cycle, however the hash collides: no cycle has two buckets.  So the *)
(* statistics kept beside it are exact too: every stage is one issue       *)
(* event, the dispatch rounds are the different cycles in which stages     *)
(* start, and between commands the last cycle, kept from each command's    *)
(* last stage only, is the latest end of all stages.                       *)
TableExact == BucketsExact /\ ReportExact

(* The issue width is respected and used: no cycle ever issues more stages *)
(* than the controller is wide, and a stage that waits longer than its     *)
(* resources ask for does so by whole module clocks, past cycles in which  *)
(* every issue slot was taken.                                             *)
WidthRespected ==
  /\ \A c \in Starts : Cardinality(StartedAt(c)) <= issue_width
  /\ pc = "probe" =>
       /\ (cycle - Earliest) % dispatch_cycles = 0
       /\ \A k \in 0..(cycle - Earliest) \div dispatch_cycles - 1 :
            Cardinality(StartedAt(Earliest + k * dispatch_cycles)) = issue_width

(* The slices are spread over the computations in proportion, never off by *)
(* more than half a slice, and all of them are out when the computations   *)
(* are: the loop after them only serves rows without computation.          *)
SlicesSpread ==
  demand.read_compute > 0 =>
    /\ pc = "compute" =>
         LET ahead == slice_done * demand.read_compute - rc * demand.read_slice
         IN  2 * ahead <= demand.read_compute /\ -2 * ahead <= demand.read_compute
    /\ pc \in {"trailing", "ok"} => slice_done = demand.read_slice

AnyDelay(delay) == delay \in Nat

(* The row is a list schedule of its stages, delayed by the issue slots.   *)
List == INSTANCE ListSchedule WITH Commands <- PlacedCommand, DelayAllowed <- AnyDelay

ImplementsListSchedule == List!Spec

(* Every row that is accepted is scheduled to its end: the probe loop,     *)
(* which nothing bounds, always finds the cycle's bucket or a free one.    *)
Completes == <>(pc \in {"ok", "refused"})
=============================================================================
