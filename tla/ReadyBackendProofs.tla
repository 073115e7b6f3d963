-------------------------- MODULE ReadyBackendProofs --------------------------
(***************************************************************************)
(* The ready-time backend keeps exact ready times and implements           *)
(* ListSchedule without delays, for every set of platforms and durations.  *)
(***************************************************************************)
EXTENDS ReadyBackend, IfcStagesProofs

(* Where the submission is, against the last row written.  After a stage   *)
(* that is not a command's last, everything it used is ready at its end:   *)
(* the computation relies on that and looks at the compute unit only.      *)
InStep ==
  LET c    == commands[command_id]
      last == rows[Len(rows)]
  IN  /\ command_id <= Len(commands) => stage < StageCount(c)
      /\ command_id > Len(commands) => stage = 0
      /\ stage = 0 => rows = << >> \/ last.stage = StageCount(last.command) - 1
      /\ stage > 0 =>
           /\ rows # << >> /\ last.command = c /\ last.stage = stage - 1
           /\ \A r \in Needs(c, stage - 1) : ready[r] = stage_end

Ends == {0} \cup {rows[j].end : j \in DOMAIN rows}

(* The statistics at every row.                                            *)
CountsAgree ==
  /\ stage_events = Len(rows)
  /\ last_complete_cycle \in Ends /\ \A e \in Ends : e <= last_complete_cycle
  /\ read_compute_commands + read_slice_commands = command_id - 1
  /\ Len(rows) = 4 * read_compute_commands + 2 * read_slice_commands + stage
  /\ pc = "ok" => command_id = Len(commands) + 1

IInv == TypeOK /\ ReadyMax(ready, rows) /\ RowsExclusive(rows) /\ StagesExist(rows) /\ InStep /\ CountsAgree

(* The tables and the trace have their types.                              *)
LEMMA BackendTables == TypeOK => TablesTyped(Command, ready, rows)
BY DEF TypeOK, ReadyTypeOK, TablesTyped

LEMMA InitIInv == Init => IInv
<1> SUFFICES ASSUME Init PROVE IInv
  OBVIOUS
<1>1. /\ ready = [r \in AllResources |-> 0] /\ rows = << >>
      /\ command_id = 1 /\ stage = 0 /\ stage_end = 0
      /\ stage_events = 0 /\ last_complete_cycle = 0
      /\ read_compute_commands = 0 /\ read_slice_commands = 0
  BY DEF Init, InitReady
<1>2. commands \in Seq(Command) /\ timing \in Timing /\ pc \in {"submit", "failed"}
  <2>1. PICK p \in Platforms :
          IF PlatformSupported(p)
          THEN commands = BuildCommands(p) /\ pc = "submit"
          ELSE commands = << >> /\ pc = "failed"
    BY DEF Init
  <2>2. CASE PlatformSupported(p)
    BY <2>1, <2>2, BuildCommandsType, ReadyBackendAssumption DEF Init
  <2>3. CASE ~PlatformSupported(p)
    BY <2>1, <2>3, ReadyBackendAssumption DEF Init
  <2> QED BY <2>2, <2>3
<1>3. TypeOK
  BY <1>1, <1>2 DEF TypeOK, ReadyTypeOK
<1>4. ReadyMax(ready, rows) /\ RowsExclusive(rows) /\ StagesExist(rows)
  BY <1>1 DEF ReadyMax, EndsOf, RowsExclusive, StagesExist
<1>5. InStep
  <2>1. 1 <= Len(commands) => 0 < StageCount(commands[1])
    BY <1>2, StageFacts
  <2> QED BY <1>1, <2>1 DEF InStep
<1>6. CountsAgree
  BY <1>1, <1>2 DEF CountsAgree, Ends
<1> QED BY <1>3, <1>4, <1>5, <1>6 DEF IInv

(* A stage starts when the last of its resources is ready.                 *)
LEMMA StartIsEarliest ==
  ASSUME TypeOK, InStep, command_id <= Len(commands),
         NEW c, c = commands[command_id]
  PROVE  /\ Start(c, stage) \in Nat
         /\ \A r \in Needs(c, stage) : ready[r] <= Start(c, stage)
         /\ \E r \in Needs(c, stage) : ready[r] = Start(c, stage)
<1>1. c \in Command /\ stage \in 0..(StageCount(c) - 1)
  <2>1. c \in Command
    BY DEF TypeOK
  <2>2. stage \in Nat /\ stage < StageCount(c) /\ StageCount(c) \in Nat
    BY <2>1, StageFacts DEF TypeOK, InStep
  <2> QED BY <2>1, <2>2
<1>2. /\ ready[ChannelOf(c)] \in Nat /\ ready[ChipOf(c)] \in Nat
      /\ ready[PlaneOf(c)] \in Nat /\ ready[ComputeOf(c)] \in Nat
  <2>1. {ChannelOf(c), ChipOf(c), PlaneOf(c), ComputeOf(c)} \subseteq AllResources
    BY <1>1, CommandResources
  <2> QED BY <2>1 DEF TypeOK, ReadyTypeOK
<1>3. stage_end \in Nat
  BY DEF TypeOK
<1>4. CASE IsTransfer(StageOf(c, stage))
  <2>1. Needs(c, stage) = {ChannelOf(c), ChipOf(c)}
    BY <1>4 DEF Needs
  <2>2. Start(c, stage) = Max2(ready[ChannelOf(c)], ready[ChipOf(c)])
    BY <1>4 DEF Start, IsTransfer
  <2> QED BY <2>1, <2>2, <1>2 DEF Max2
<1>5. CASE StageOf(c, stage) = "ARRAY_READ"
  <2>1. Needs(c, stage) = {ChipOf(c), PlaneOf(c)}
    BY <1>5 DEF Needs, IsTransfer
  <2>2. Start(c, stage) = Max2(ready[ChipOf(c)], ready[PlaneOf(c)])
    BY <1>5 DEF Start, IsTransfer
  <2> QED BY <2>1, <2>2, <1>2 DEF Max2
<1>6. CASE StageOf(c, stage) = "IFC_COMPUTE"
  <2>1. Needs(c, stage) = {ChipOf(c), PlaneOf(c), ComputeOf(c)}
    BY <1>6 DEF Needs, IsTransfer
  <2>2. Start(c, stage) = Max2(stage_end, ready[ComputeOf(c)])
    BY <1>6 DEF Start, IsTransfer
  <2>3. stage = 3 /\ StageOf(c, stage - 1) = "ARRAY_READ"
    BY <1>1, <1>6 DEF StageOf, StagesOf, StageCount
  <2>4. Needs(c, stage - 1) = {ChipOf(c), PlaneOf(c)}
    BY <2>3 DEF Needs, IsTransfer
  <2>5. ready[ChipOf(c)] = stage_end /\ ready[PlaneOf(c)] = stage_end
    BY <2>3, <2>4 DEF InStep
  <2> QED BY <2>1, <2>2, <2>5, <1>2, <1>3 DEF Max2
<1>7. StageOf(c, stage) \in StageNames
  BY <1>1, StageFacts
<1> QED BY <1>4, <1>5, <1>6, <1>7 DEF StageNames, IsTransfer

(* A submitted stage keeps everything.                                     *)
LEMMA SubmitIInv == IInv /\ SubmitStage => IInv'
<1> SUFFICES ASSUME IInv, SubmitStage PROVE IInv'
  OBVIOUS
<1> DEFINE c     == commands[command_id]
           start == Start(c, stage)
           end   == start + timing[StageOf(c, stage)]
           row   == [command |-> c, stage |-> stage, start |-> start, end |-> end]
<1>1. /\ pc = "submit" /\ command_id <= Len(commands)
      /\ Occupy(c, stage, start, end) /\ WriteStage(end) /\ NextStage(c) /\ stage_end' = end
      /\ UNCHANGED <<commands, timing, pc>>
  BY DEF SubmitStage
<1>2. TypeOK /\ InStep /\ CountsAgree /\ ReadyTypeOK(Command)
  BY DEF IInv, TypeOK
<1>3. /\ c \in Command /\ stage \in 0..(StageCount(c) - 1) /\ StageCount(c) \in {2, 4}
      /\ command_id \in Nat /\ Len(commands) \in Nat
  <2>1. c \in Command
    BY <1>1, <1>2 DEF TypeOK
  <2>2. stage \in Nat /\ stage < StageCount(c) /\ StageCount(c) \in {2, 4}
    BY <1>1, <1>2, <2>1, StageFacts DEF TypeOK, InStep
  <2> QED BY <1>2, <2>1, <2>2 DEF TypeOK
<1>4. /\ start \in Nat /\ \A r \in Needs(c, stage) : ready[r] <= start
  BY <1>1, <1>2, StartIsEarliest
<1>5. timing[StageOf(c, stage)] \in Nat \ {0}
  BY <1>2, <1>3, StageFacts DEF TypeOK, Timing
<1>6. end \in Nat /\ end > start
  BY <1>4, <1>5
<1> HIDE DEF c, start, end, row
<1>7. ReadyTypeOK(Command)' /\ ReadyMax(ready, rows)' /\ RowsExclusive(rows)' /\ StagesExist(rows)'
  <2>1. ready' = TableAfter(ready, c, stage, end) /\ rows' = ListAfter(rows, c, stage, start, end)
    BY <1>1 DEF Occupy, TableAfter, ListAfter
  <2>2. TablesTyped(Command, ready, rows) /\ Placed(c)
    BY <1>2, <1>3, BackendTables, CommandPlaced
  <2>3. /\ TablesTyped(Command, ready', rows') /\ ReadyMax(ready', rows')
        /\ RowsExclusive(rows') /\ StagesExist(rows')
    BY <1>3, <1>4, <1>6, <2>1, <2>2, PlacingKeeps DEF IInv
  <2> QED BY <2>3 DEF TablesTyped, ReadyTypeOK
<1>8. /\ rows' = Append(rows, row) /\ Len(rows') = Len(rows) + 1
      /\ rows'[Len(rows')] = row /\ rows' # << >>
      /\ \A k \in 1..Len(rows) : rows'[k] = rows[k]
      /\ DOMAIN rows = 1..Len(rows) /\ DOMAIN rows' = 1..Len(rows) + 1
      /\ Len(rows) \in Nat
  <2>1. rows' = Append(rows, row)
    BY <1>1 DEF Occupy, row
  <2>2. rows \in Seq([command : Command, stage : 0..3, start : Nat, end : Nat \ {0}])
    BY <1>2 DEF ReadyTypeOK
  <2> DEFINE RowSet == [command : Command, stage : 0..3, start : Nat, end : Nat \ {0}]
  <2>3. row \in RowSet
    BY <1>3, <1>4, <1>6 DEF row
  <2> HIDE DEF RowSet
  <2>4. rows \in Seq(RowSet)
    BY <2>2 DEF RowSet
  <2> QED BY <2>1, <2>3, <2>4
<1>9. row.command = c /\ row.stage = stage /\ row.end = end
  BY DEF row
<1>10. \A r \in Needs(c, stage) : ready'[r] = end
  BY <1>1, <1>3, NeedsType DEF Occupy
<1>11. command_id' \in 1..Len(commands) + 1 /\ stage' \in 0..3
  <2>1. CASE stage + 1 < StageCount(c)
    BY <1>1, <1>2, <1>3, <2>1 DEF NextStage, TypeOK
  <2>2. CASE ~(stage + 1 < StageCount(c))
    BY <1>1, <1>2, <1>3, <2>2 DEF NextStage, TypeOK
  <2> QED BY <2>1, <2>2
<1>12. TypeOK'
  <2>1. read_compute_commands' \in Nat /\ read_slice_commands' \in Nat
    BY <1>1, <1>2 DEF NextStage, TypeOK
  <2>2. stage_events' \in Nat /\ last_complete_cycle' \in Nat /\ stage_end' \in Nat
    BY <1>1, <1>2, <1>6 DEF WriteStage, Max2, TypeOK
  <2> QED BY <1>1, <1>2, <1>7, <1>11, <2>1, <2>2 DEF TypeOK
<1>13. InStep'
  <2>1. CASE stage + 1 < StageCount(c)
    <3>1. command_id' = command_id /\ stage' = stage + 1 /\ commands' = commands
      BY <1>1, <2>1 DEF NextStage
    <3>2. commands'[command_id'] = c /\ stage' - 1 = stage /\ stage' > 0
      BY <1>3, <3>1 DEF c
    <3>3. \A r \in Needs(c, stage) : ready'[r] = stage_end'
      BY <1>1, <1>10
    <3> QED BY <1>1, <1>3, <1>8, <1>9, <2>1, <3>1, <3>2, <3>3 DEF InStep
  <2>2. CASE ~(stage + 1 < StageCount(c))
    <3>1. command_id' = command_id + 1 /\ stage' = 0 /\ commands' = commands
      BY <1>1, <2>2 DEF NextStage
    <3>2. row.stage = StageCount(row.command) - 1
      BY <1>3, <1>9, <2>2
    <3>3. command_id' <= Len(commands) => 0 < StageCount(commands[command_id'])
      <4> SUFFICES ASSUME command_id' <= Len(commands)
                   PROVE  0 < StageCount(commands[command_id'])
        OBVIOUS
      <4>1. commands[command_id'] \in Command
        BY <1>2, <1>11 DEF TypeOK
      <4> QED BY <4>1, StageFacts
    <3> QED BY <1>8, <3>1, <3>2, <3>3 DEF InStep
  <2> QED BY <2>1, <2>2
<1>14. CountsAgree'
  <2>1. Ends' = Ends \cup {end}
    BY <1>8, <1>9 DEF Ends
  <2>2. last_complete_cycle' \in Ends' /\ \A e \in Ends' : e <= last_complete_cycle'
    <3>1. last_complete_cycle' = Max2(last_complete_cycle, end)
      BY <1>1 DEF WriteStage
    <3>2. Ends \subseteq Nat /\ last_complete_cycle \in Nat
      BY <1>2, EndsType, BackendTables DEF Ends, TypeOK
    <3> QED BY <1>2, <1>6, <2>1, <3>1, <3>2 DEF Max2, CountsAgree
  <2>3. stage_events' = Len(rows')
    BY <1>1, <1>2, <1>8 DEF WriteStage, CountsAgree
  <2>4. /\ read_compute_commands' + read_slice_commands' = command_id' - 1
        /\ Len(rows') = 4 * read_compute_commands' + 2 * read_slice_commands' + stage'
    <3>1. /\ read_compute_commands \in Nat /\ read_slice_commands \in Nat
          /\ read_compute_commands + read_slice_commands = command_id - 1
          /\ Len(rows) = 4 * read_compute_commands + 2 * read_slice_commands + stage
      BY <1>2 DEF TypeOK, CountsAgree
    <3>2. StageCount(c) = IF c.opcode = "READ_COMPUTE" THEN 4 ELSE 2
      BY DEF StageCount, StagesOf
    <3>3. CASE stage + 1 < StageCount(c)
      BY <1>1, <1>3, <1>8, <3>1, <3>3 DEF NextStage
    <3>4. CASE ~(stage + 1 < StageCount(c)) /\ c.opcode = "READ_COMPUTE"
      BY <1>1, <1>3, <1>8, <3>1, <3>2, <3>4 DEF NextStage
    <3>5. CASE ~(stage + 1 < StageCount(c)) /\ c.opcode # "READ_COMPUTE"
      BY <1>1, <1>3, <1>8, <3>1, <3>2, <3>5 DEF NextStage
    <3> QED BY <3>3, <3>4, <3>5
  <2>5. pc' # "ok"
    BY <1>1
  <2> QED BY <2>2, <2>3, <2>4, <2>5 DEF CountsAgree
<1> QED BY <1>7, <1>12, <1>13, <1>14 DEF IInv

LEMMA StepIInv == IInv /\ [Next]_vars => IInv'
<1> SUFFICES ASSUME IInv, [Next]_vars PROVE IInv'
  OBVIOUS
<1> USE DEF IInv
<1>1. CASE SubmitStage
  BY <1>1, SubmitIInv
<1>2. CASE Return \/ WriteError
  <2>1. /\ UNCHANGED <<ready, rows, commands, timing, command_id, stage, stage_end, counters>>
        /\ pc' \in {"ok", "failed"}
        /\ pc' = "ok" => command_id > Len(commands)
    BY <1>2 DEF Return, WriteError
  <2>2. TypeOK'
    BY <2>1 DEF TypeOK, ReadyTypeOK, counters
  <2>3. ReadyMax(ready, rows)' /\ RowsExclusive(rows)' /\ StagesExist(rows)'
    BY <2>1 DEF ReadyMax, EndsOf, RowsExclusive, StagesExist
  <2>4. InStep'
    BY <2>1 DEF InStep
  <2>5. CountsAgree'
    <3>1. pc' = "ok" => command_id = Len(commands) + 1
      BY <2>1 DEF TypeOK
    <3> QED BY <2>1, <3>1 DEF CountsAgree, Ends, counters
  <2> QED BY <2>2, <2>3, <2>4, <2>5
<1>3. CASE UNCHANGED vars
  <2>1. UNCHANGED <<ready, rows, commands, timing, command_id, stage, stage_end, counters, pc>>
    BY <1>3 DEF vars
  <2>2. TypeOK'
    BY <2>1 DEF TypeOK, ReadyTypeOK, counters
  <2>3. ReadyMax(ready, rows)' /\ RowsExclusive(rows)' /\ StagesExist(rows)' /\ InStep' /\ CountsAgree'
    BY <2>1 DEF ReadyMax, EndsOf, RowsExclusive, StagesExist, InStep, CountsAgree, Ends, counters
  <2> QED BY <2>2, <2>3
<1> QED BY <1>1, <1>2, <1>3 DEF Next, Terminated

(* The invariant holds in every reachable state.                           *)
THEOREM Invariance == Spec => []IInv
<1> QED BY InitIInv, StepIInv, PTL DEF Spec

(* Every variable has its type.                                            *)
THEOREM TypeCorrect == Spec => []TypeOK
<1>1. IInv => TypeOK
  BY DEF IInv
<1> QED BY <1>1, Invariance, PTL

(* The ready tables, set by hand after each stage, are exact.              *)
THEOREM TablesExact == Spec => []ReadyExact
<1>1. IInv => ReadyExact
  <2>1. IInv => \A r \in AllResources : ready[r] = Latest(EndsOf(rows, r))
    BY ReadyMaxExact, BackendTables DEF IInv
  <2> QED BY <2>1 DEF ReadyExact, EndsOf
<1> QED BY <1>1, Invariance, PTL

(* Stages that share a resource never overlap.                             *)
THEOREM ResourcesExclusive == Spec => []RowsExclusive(rows)
<1>1. IInv => RowsExclusive(rows)
  BY DEF IInv
<1> QED BY <1>1, Invariance, PTL

(* No stage of a plane overlaps a slice's transfer from it.                *)
THEOREM PlanesIdle == Spec => []SlicesFindPlaneIdle
<1>1. IInv => SlicesFindPlaneIdle
  BY ExclusiveFindsPlaneIdle, BackendTables DEF IInv, SlicesFindPlaneIdle
<1> QED BY <1>1, Invariance, PTL

(* The statistics agree with the rows.                                     *)
THEOREM StatisticsCorrect == Spec => []ReportExact
<1>1. ASSUME IInv PROVE ReportExact
  <2>1. TypeOK /\ InStep /\ CountsAgree
    BY <1>1 DEF IInv
  <2>2. Ends \subseteq Int
    BY <2>1, EndsType, BackendTables DEF Ends, TypeOK
  <2>3. last_complete_cycle = Latest(Ends)
    BY <2>1, <2>2, LatestIs DEF CountsAgree
  <2>4. pc = "ok" => command_id = Len(commands) + 1 /\ stage = 0
    BY <2>1 DEF CountsAgree, InStep, TypeOK
  <2> QED BY <2>1, <2>3, <2>4 DEF ReportExact, CountsAgree, Ends, TypeOK
<1> QED BY <1>1, Invariance, PTL

-----------------------------------------------------------------------------
(* Refinement of ListSchedule.                                             *)

(* The instance has definitions of its own for stages and resources; they  *)
(* are those of IfcStages.                                                 *)
LEMMA ListTerms ==
  /\ \A row : List!LastStageOf(row) <=> row.stage = StageCount(row.command) - 1
  /\ \A row : List!Claims(row) = Needs(row.command, row.stage)
<1>1. \A row : List!LastStageOf(row) <=> row.stage = StageCount(row.command) - 1
  BY DEF List!LastStageOf, List!StageCount, List!StagesOf, StageCount, StagesOf
<1>2. \A c, s : List!StageOf(c, s) = StageOf(c, s)
  BY DEF List!StageOf, List!StagesOf, StageOf, StagesOf
<1>3. \A c : /\ List!ChannelOf(c) = ChannelOf(c) /\ List!ChipOf(c) = ChipOf(c)
             /\ List!ComputeOf(c) = ComputeOf(c) /\ List!PlaneOf(c) = PlaneOf(c)
  BY DEF List!ChannelOf, List!ChipOf, List!ComputeOf, List!PlaneOf,
         ChannelOf, ChipOf, ComputeOf, PlaneOf
<1>4. \A c, s : List!Needs(c, s) = Needs(c, s)
  BY <1>2, <1>3 DEF List!Needs, List!IsTransfer, Needs, IsTransfer
<1> QED BY <1>1, <1>4 DEF List!Claims

LEMMA ListStep == IInv /\ [Next]_vars => [List!Next]_rows
<1> SUFFICES ASSUME IInv, [Next]_vars, rows' # rows PROVE List!Next
  OBVIOUS
<1> DEFINE c     == commands[command_id]
           start == Start(c, stage)
           end   == start + timing[StageOf(c, stage)]
           row   == [command |-> c, stage |-> stage, start |-> start, end |-> end]
<1>1. SubmitStage
  BY DEF Next, Return, WriteError, Terminated, vars
<1>2. /\ command_id <= Len(commands) /\ rows' = Append(rows, row)
  BY <1>1 DEF SubmitStage, Occupy
<1>3. TypeOK /\ InStep /\ ReadyTypeOK(Command) /\ ReadyMax(ready, rows)
  BY DEF IInv, TypeOK
<1>4. c \in Command /\ stage \in 0..3
  BY <1>2, <1>3 DEF TypeOK
<1>5. /\ start \in Nat
      /\ \A r \in Needs(c, stage) : ready[r] <= start
      /\ \E r \in Needs(c, stage) : ready[r] = start
  BY <1>2, <1>3, StartIsEarliest
<1>6. StageOf(c, stage) \in StageNames
  <2>1. stage < StageCount(c) /\ stage \in Nat /\ StageCount(c) \in Nat
    BY <1>2, <1>3, <1>4, StageFacts DEF InStep
  <2> QED BY <1>4, <2>1, StageFacts
<1>7. end \in Nat /\ end > start
  BY <1>3, <1>5, <1>6 DEF TypeOK, Timing
<1> HIDE DEF c, start, end
<1>8. /\ start \in {0} \cup EndsBefore(rows, c, stage)
      /\ \A e \in EndsBefore(rows, c, stage) : e <= start
  BY <1>3, <1>4, <1>5, EarliestIsWait, CommandPlaced, BackendTables
<1>9. row.command = c /\ row.stage = stage /\ row.start = start /\ row.end = end
  OBVIOUS
<1>10. row \in List!Row
  BY <1>4, <1>5, <1>7 DEF List!Row
<1>11. rows \in Seq(List!Row)
  <2> DEFINE RowSet == [command : Command, stage : 0..3, start : Nat, end : Nat \ {0}]
  <2>1. rows \in Seq(RowSet) /\ RowSet \subseteq List!Row
    BY <1>3 DEF ReadyTypeOK, List!Row
  <2> HIDE DEF RowSet
  <2> QED BY <2>1
<1> HIDE DEF row
<1>12. Len(rows') = Len(rows) + 1 /\ rows'[Len(rows')] = row
  BY <1>2, <1>10, <1>11
<1>13. List!InTurn(rows, row)
  <2>1. CASE stage = 0
    <3>1. rows = << >> \/ List!LastStageOf(rows[Len(rows)])
      BY <2>1, <1>3, ListTerms DEF InStep
    <3> QED BY <3>1, <2>1, <1>9 DEF List!InTurn
  <2>2. CASE stage # 0
    <3>1. /\ rows # << >> /\ rows[Len(rows)].command = c
          /\ rows[Len(rows)].stage = stage - 1
      BY <2>2, <1>3, <1>4 DEF InStep, c
    <3>2. ~List!LastStageOf(rows[Len(rows)])
      <4>1. stage < StageCount(c)
        BY <1>2, <1>3 DEF InStep, c
      <4>2. StageCount(c) \in {2, 4}
        BY <1>4, StageFacts
      <4> QED BY <3>1, <4>1, <4>2, <1>4, ListTerms
    <3> QED BY <3>1, <3>2, <1>4, <1>9 DEF List!InTurn
  <2> QED BY <2>1, <2>2
<1>14. List!OnTime(rows, row)
  <2>1. List!WaitsFor(rows, row) = EndsBefore(rows, c, stage)
    BY <1>9, ListTerms DEF List!WaitsFor, List!Conflict, EndsBefore
  <2>2. start - start = 0
    BY <1>5
  <2> QED BY <2>1, <2>2, <1>5, <1>8, <1>9 DEF List!OnTime, NoDelay
<1> QED BY <1>2, <1>7, <1>9, <1>10, <1>12, <1>13, <1>14 DEF List!Next

(* The trace is a list schedule without delays.                            *)
THEOREM Implements == Spec => ImplementsListSchedule
<1>1. Init => List!Init
  BY DEF Init, InitReady, List!Init
<1> QED BY <1>1, Invariance, ListStep, PTL DEF Spec, ImplementsListSchedule, List!Spec
=============================================================================
