--------------------------- MODULE EventLoopProofs ---------------------------
(***************************************************************************)
(* The safety of the event backend, for every platform, stage timing and   *)
(* stream length.                                                          *)
(***************************************************************************)
EXTENDS EventLoop, IfcStagesProofs, FiniteSetTheorems

(* The state of a command agrees with its stage index.                     *)
StageAgrees ==
  \A k \in Ids :
    /\ Done(k) => stage[k] = StageCount(commands[k])
    /\ ~Done(k) => stage[k] < StageCount(commands[k])

(* Stages under way end in the future, except for those the completion     *)
(* pass has still to reach.                                                *)
EndsAhead ==
  \A k \in ActiveIds :
    /\ pc = "complete" => stage_end[k] >= current_cycle
    /\ pc = "complete" /\ k < i => stage_end[k] > current_cycle
    /\ pc \in {"issue", "advance"} => stage_end[k] > current_cycle

Blocked(k) == \E r \in Need(k) : owner[r] # None

(* A waiting command the issue pass has gone by is blocked, and stays so.  *)
PassBlocks ==
  \A k \in Ids :
    Waiting(k) /\ ((pc = "issue" /\ k < i) \/ pc = "advance") => Blocked(k)

EndedStages == {e \in Ids \X (0..3) : e[2] < stage[e[1]]}

DoneIds == {k \in Ids : Done(k)}

(* Every iteration but the first completes a stage.                        *)
GuardCounts ==
  /\ pc = "complete" =>
       \/ guard <= complete_events
       \/ /\ guard = complete_events + 1
          /\ \E k \in EndingNow : k >= i
  /\ pc \in {"issue", "advance"} => guard <= complete_events

StreamFits ==
  /\ Len(commands) <= IFC_SSDSIM_MAX_COMMANDS
  /\ pc = "advance" => completed_commands < Len(commands)

(* The inductive invariant.                                                *)
IInv ==
  /\ TypeOK
  /\ OwnersExact
  /\ ChipInOrder
  /\ StageAgrees
  /\ EndsAhead
  /\ PassBlocks
  /\ StateCounts
  /\ GuardCounts
  /\ StreamFits
  /\ NoAbort

-----------------------------------------------------------------------------
(* Facts about one state.                                                  *)

LEMMA IdFacts ==
  ASSUME TypeOK
  PROVE  /\ Ids = 1..Len(commands) /\ Len(commands) \in Nat
         /\ None \notin Ids
         /\ \A k \in Ids : commands[k] \in Command /\ Need(k) \subseteq AllResources
<1>1. Ids = 1..Len(commands) /\ Len(commands) \in Nat
  BY DEF TypeOK, TableTypeOK, Ids
<1>2. \A k \in Ids : commands[k] \in Command
  BY <1>1 DEF TypeOK, TableTypeOK
<1> QED BY <1>1, <1>2, NeedsType DEF None, Need

LEMMA FiniteIds ==
  ASSUME TypeOK
  PROVE  /\ IsFiniteSet(Ids) /\ Cardinality(Ids) = Len(commands)
         /\ IsFiniteSet(ActiveIds) /\ IsFiniteSet(DoneIds)
         /\ IsFiniteSet(EndedStages)
         /\ Cardinality(EndedStages) <= 4 * Len(commands)
<1>1. IsFiniteSet(Ids) /\ Cardinality(Ids) = Len(commands)
  <2>1. Ids = 1..Len(commands) /\ Len(commands) \in Nat
    BY IdFacts
  <2>2. IsFiniteSet(1..Len(commands)) /\ Cardinality(1..Len(commands)) = Len(commands)
    <3>1. 1 \in Int /\ Len(commands) \in Int
      BY <2>1
    <3>2. /\ IsFiniteSet(1..Len(commands))
          /\ Cardinality(1..Len(commands))
               = IF 1 > Len(commands) THEN 0 ELSE Len(commands) - 1 + 1
      BY <3>1, FS_Interval
    <3> QED BY <2>1, <3>2
  <2> QED BY <2>1, <2>2
<1>2. ActiveIds \in SUBSET Ids /\ DoneIds \in SUBSET Ids
  BY DEF ActiveIds, DoneIds
<1>3. IsFiniteSet(0..3) /\ Cardinality(0..3) = 4
  <2>1. \A a, b \in Int :
          /\ IsFiniteSet(a..b)
          /\ Cardinality(a..b) = IF a > b THEN 0 ELSE b - a + 1
    BY FS_Interval
  <2>2. IsFiniteSet(0..3) /\ Cardinality(0..3) = IF 0 > 3 THEN 0 ELSE 3 - 0 + 1
    BY <2>1, 0 \in Int, 3 \in Int, Zenon
  <2> QED BY <2>2
<1>4. IsFiniteSet(Ids \X (0..3)) /\ Cardinality(Ids \X (0..3)) = Len(commands) * 4
  BY <1>1, <1>3, FS_Product
<1>5. EndedStages \in SUBSET (Ids \X (0..3))
  BY DEF EndedStages
<1>6. IsFiniteSet(EndedStages) /\ Cardinality(EndedStages) <= Len(commands) * 4
  BY <1>4, <1>5, FS_Subset
<1>7. IsFiniteSet(ActiveIds) /\ IsFiniteSet(DoneIds)
  BY <1>1, <1>2, FS_Subset
<1>8. Len(commands) * 4 = 4 * Len(commands)
  BY IdFacts
<1> QED BY <1>1, <1>6, <1>7, <1>8

(* A blocked command finds its chip or its channel taken, and at a plane   *)
(* or compute stage always the chip: whoever holds the plane or the core   *)
(* holds the chip.                                                         *)
LEMMA BlockedChip ==
  ASSUME TypeOK, OwnersExact, NEW k \in Ids, Blocked(k)
  PROVE  owner[ChannelOf(commands[k])] # None \/ owner[ChipOf(commands[k])] # None
<1>1. PICK r \in Need(k) : owner[r] # None
  BY DEF Blocked
<1>2. CASE r = ChannelOf(commands[k])
  BY <1>1, <1>2
<1>3. CASE r # ChannelOf(commands[k])
  <2> DEFINE m == owner[r]
  <2>1. m \in ActiveIds /\ r \in Need(m)
    BY <1>1, IdFacts DEF OwnersExact
  <2>2. SameChip(commands[k], commands[m])
    BY <1>3, <2>1, SharedNeedSameChip DEF Need
  <2>3. ChipOf(commands[k]) \in Need(m)
    BY <2>2, SameChipFacts, NeedsFacts DEF Need
  <2>4. owner[ChipOf(commands[k])] = m
    BY <2>1, <2>3 DEF OwnersExact
  <2> QED BY <2>1, <2>4, IdFacts DEF ActiveIds
<1> QED BY <1>2, <1>3

(* The commands are on finitely many chips.                                *)
LEMMA FiniteChips == ASSUME TypeOK PROVE IsFiniteSet(ChipsUsed)
<1> DEFINE chip == [j \in Ids |-> <<commands[j].channel, commands[j].chip>>]
<1>1. chip \in Surjection(Ids, ChipsUsed)
  BY DEF Surjection, ChipsUsed
<1> QED BY <1>1, FiniteIds, FS_Surjection

(* No more stages are under way than there are chips.                      *)
LEMMA ActiveFitChips ==
  TypeOK /\ OwnersExact => Cardinality(ActiveIds) <= Cardinality(ChipsUsed)
<1> SUFFICES ASSUME TypeOK, OwnersExact
             PROVE  Cardinality(ActiveIds) <= Cardinality(ChipsUsed)
  OBVIOUS
<1> DEFINE chip == [j \in ActiveIds |-> <<commands[j].channel, commands[j].chip>>]
<1>1. chip \in [ActiveIds -> ChipsUsed]
  BY DEF ActiveIds, ChipsUsed
<1>2. ASSUME NEW j \in ActiveIds, NEW m \in ActiveIds, chip[j] = chip[m]
      PROVE  j = m
  <2>1. ChipOf(commands[j]) = ChipOf(commands[m])
    BY <1>2 DEF ChipOf
  <2> QED BY <2>1, NeedsFacts DEF OwnersExact, Need
<1>3. chip \in Injection(ActiveIds, ChipsUsed)
  BY <1>1, <1>2 DEF Injection, IsInjective
<1> QED BY <1>3, FiniteChips, FS_Injection DEF ExistsInjection

-----------------------------------------------------------------------------
(* Init establishes the invariant.                                         *)

LEMMA InitTypeOK == Init => TypeOK /\ Len(commands) <= IFC_SSDSIM_MAX_COMMANDS
<1> SUFFICES ASSUME Init PROVE TypeOK /\ Len(commands) <= IFC_SSDSIM_MAX_COMMANDS
  OBVIOUS
<1>1. commands \in Seq(Command) /\ Len(commands) <= IFC_SSDSIM_MAX_COMMANDS
  <2>1. PICK p \in Platforms :
          IF PlatformSupported(p) /\ ~BuildFails(p)
          THEN commands = BuildCommands(p) /\ pc = "complete"
          ELSE commands = << >> /\ pc = "unsupported"
    BY DEF Init
  <2>2. p \in Platform
    BY EventLoopAssumption
  <2>3. CASE PlatformSupported(p) /\ ~BuildFails(p)
    <3>1. commands = BuildCommands(p) /\ ~(CommandCount(p) > IFC_SSDSIM_MAX_COMMANDS)
      BY <2>1, <2>3 DEF BuildFails
    <3> QED BY <2>2, <2>3, <3>1, BuildCommandsType, LimitsAssumption
  <2>4. CASE ~(PlatformSupported(p) /\ ~BuildFails(p))
    <3>1. commands = << >>
      BY <2>1, <2>4
    <3> QED BY <3>1, LimitsAssumption
  <2> QED BY <2>3, <2>4
<1>2. pc \in {"complete", "issue", "advance"} \cup Returns
  BY DEF Init, Returns
<1>3. timing \in Timing
  BY EventLoopAssumption DEF Init
<1>4. /\ active_commands \in Int /\ completed_commands \in Nat
      /\ events \in Nat /\ issue_events \in Nat /\ complete_events \in Nat
      /\ max_active_commands \in Int /\ last_event_cycle \in Nat
  BY DEF Init
<1>5. /\ status \in [Ids -> {"WAITING", "ACTIVE", "DONE"}]
      /\ stage \in [Ids -> 0..4] /\ stage_end \in [Ids -> Int]
      /\ owner \in [AllResources -> Ids \cup {None}]
      /\ current_cycle \in Nat /\ i \in Nat \ {0} /\ progress \in BOOLEAN /\ guard \in Nat
  <2>1. /\ status = [k \in Ids |-> "WAITING"] /\ stage = [k \in Ids |-> 0]
        /\ stage_end = [k \in Ids |-> -1] /\ owner = [r \in AllResources |-> None]
        /\ current_cycle = 0 /\ i = 1 /\ progress = FALSE /\ guard = 0
    BY DEF Init, InitTable
  <2>2. status \in [Ids -> {"WAITING", "ACTIVE", "DONE"}]
    BY <2>1
  <2>3. stage \in [Ids -> 0..4] /\ stage_end \in [Ids -> Int]
    BY <2>1
  <2>4. owner \in [AllResources -> Ids \cup {None}]
    BY <2>1
  <2>5. progress \in BOOLEAN
    BY <2>1, Zenon
  <2>6. current_cycle \in Nat /\ i \in Nat \ {0} /\ guard \in Nat
    BY <2>1
  <2> QED BY <2>2, <2>3, <2>4, <2>5, <2>6, Zenon
<1> QED BY <1>1, <1>2, <1>3, <1>4, <1>5, Zenon DEF TypeOK, TableTypeOK

LEMMA InitIInv == Init => IInv
<1> SUFFICES ASSUME Init PROVE IInv
  OBVIOUS
<1>1. TypeOK /\ Len(commands) <= IFC_SSDSIM_MAX_COMMANDS
  BY InitTypeOK
<1>2. ActiveIds = {} /\ DoneIds = {} /\ \A k \in Ids : Waiting(k) /\ stage[k] = 0
  BY DEF Init, InitTable, ActiveIds, Active, DoneIds, Done, Waiting
<1>3. EndedStages = {}
  BY <1>2 DEF EndedStages
<1>4. pc \in {"complete", "unsupported"}
  BY DEF Init
<1>5. OwnersExact
  BY <1>2 DEF Init, InitTable, OwnersExact
<1>6. ChipInOrder
  BY <1>2 DEF ChipInOrder, Started, Waiting, Active
<1>7. StageAgrees
  BY <1>2, IdFacts, StageFacts, <1>1 DEF StageAgrees, Done, Waiting
<1>8. EndsAhead /\ PassBlocks
  BY <1>2, <1>4 DEF EndsAhead, PassBlocks
<1>9. StateCounts
  <2>1. /\ active_commands = 0 /\ completed_commands = 0
        /\ complete_events = 0 /\ issue_events = 0 /\ events = 0
    BY DEF Init
  <2>2. Cardinality({}) = 0
    BY FS_EmptySet
  <2> QED BY <1>2, <1>3, <2>1, <2>2 DEF StateCounts, DoneIds, EndedStages
<1>10. GuardCounts
  BY <1>4 DEF Init, GuardCounts
<1>11. StreamFits /\ NoAbort
  BY <1>1, <1>4 DEF StreamFits, NoAbort
<1> QED BY <1>1, <1>5, <1>6, <1>7, <1>8, <1>9, <1>10, <1>11 DEF IInv

-----------------------------------------------------------------------------
(* Every step preserves the types.                                         *)

(* What a row does to the counters.                                        *)
LEMMA RowTypes ==
  ASSUME TypeOK, NEW type, NEW active \in Int, CountRow(type, active)
  PROVE  /\ events' \in Nat /\ issue_events' \in Nat /\ complete_events' \in Nat
         /\ max_active_commands' \in Int /\ last_event_cycle' \in Nat
BY DEF TypeOK, TableTypeOK, CountRow

(* An unfinished command is at one of its stages.                          *)
LEMMA StageInRange ==
  ASSUME TypeOK, StageAgrees, NEW k \in Ids, ~Done(k)
  PROVE  /\ commands[k] \in Command
         /\ stage[k] \in 0..(StageCount(commands[k]) - 1)
         /\ stage[k] \in 0..3
         /\ StageCount(commands[k]) \in {2, 4}
         /\ Duration(k) \in Nat \ {0}
<1>1. commands[k] \in Command
  BY IdFacts
<1>2. StageCount(commands[k]) \in {2, 4}
  BY <1>1, StageFacts
<1>3. stage[k] \in 0..4 /\ stage[k] < StageCount(commands[k])
  BY DEF TypeOK, TableTypeOK, StageAgrees
<1>4. stage[k] \in 0..(StageCount(commands[k]) - 1) /\ stage[k] \in 0..3
  BY <1>2, <1>3
<1>5. StageOf(commands[k], stage[k]) \in StageNames
  BY <1>1, <1>4, StageFacts
<1>6. Duration(k) \in Nat \ {0}
  BY <1>5 DEF Duration, TypeOK, TableTypeOK, Timing
<1> QED BY <1>1, <1>2, <1>4, <1>6

(* The events the clock may move to are cycles.                            *)
LEMMA NextEventsType ==
  ASSUME TypeOK
  PROVE  NextEvents = {stage_end[k] : k \in ActiveIds} /\ NextEvents \subseteq Int
<1>1. \A k \in Ids : ~(commands[k].arrival_cycle > current_cycle)
  BY IdFacts DEF TypeOK, TableTypeOK, Command
<1>2. NextEvents = {stage_end[k] : k \in ActiveIds}
  BY <1>1 DEF NextEvents, ActiveIds
<1>3. \A k \in ActiveIds : stage_end[k] \in Int
  BY DEF TypeOK, TableTypeOK, ActiveIds
<1> QED BY <1>2, <1>3

LEMMA StepTypeOK ==
  ASSUME TypeOK, StageAgrees, [Next]_vars
  PROVE  TypeOK'
<1> USE DEF TypeOK, TableTypeOK
<1>1. ASSUME NEW k \in Ids, Complete(k)
      PROVE  TypeOK'
  <2>1. /\ events' \in Nat /\ issue_events' \in Nat /\ complete_events' \in Nat
        /\ max_active_commands' \in Int /\ last_event_cycle' \in Nat
    BY <1>1, RowTypes DEF Complete
  <2>2. active_commands' \in Int /\ completed_commands' \in Nat
    BY <1>1 DEF Complete
  <2>3. owner' \in [AllResources -> Ids \cup {None}]
    BY <1>1 DEF Complete, EndStage, Release
  <2>4. stage[k] \in 0..3
    BY <1>1, StageInRange DEF Complete, FirstFrom, EndingNow, Done, Active
  <2>5. stage' \in [Ids -> 0..4]
    BY <1>1, <2>4 DEF Complete, EndStage
  <2>6. status' \in [Ids -> {"WAITING", "ACTIVE", "DONE"}]
    BY <1>1 DEF Complete, EndStage
  <2>7. k \in Nat
    BY <1>1, IdFacts
  <2>8. i' \in Nat \ {0}
    BY <1>1, <2>7 DEF Complete
  <2>9. pc' = pc /\ stage_end' = stage_end /\ Ids' = Ids
        /\ UNCHANGED <<commands, timing, current_cycle, guard>>
    BY <1>1 DEF Complete, EndStage, Ids
  <2>10. progress' \in BOOLEAN
    BY <1>1, Zenon DEF Complete
  <2> QED BY <2>1, <2>2, <2>3, <2>5, <2>6, <2>8, <2>9, <2>10, Zenon
<1>2. ASSUME NEW k \in Ids, StartStage(k), UNCHANGED commands
      PROVE  /\ status' \in [Ids' -> {"WAITING", "ACTIVE", "DONE"}]
             /\ stage' \in [Ids' -> 0..4]
             /\ stage_end' \in [Ids' -> Int]
             /\ owner' \in [AllResources -> Ids' \cup {None}]
  <2>1. Ids' = Ids
    BY <1>2 DEF Ids
  <2>2. Duration(k) \in Nat
    BY <1>2, StageInRange DEF StartStage, FirstFrom, Issuable, Waiting, Done
  <2>3. stage_end' \in [Ids -> Int]
    BY <1>2, <2>2 DEF StartStage, BeginStage
  <2>4. owner' \in [AllResources -> Ids \cup {None}]
    BY <1>2 DEF StartStage, BeginStage, Reserve
  <2>5. status' \in [Ids -> {"WAITING", "ACTIVE", "DONE"}] /\ stage' \in [Ids -> 0..4]
    BY <1>2 DEF StartStage, BeginStage
  <2> QED BY <2>1, <2>3, <2>4, <2>5
<1>3. ASSUME NEW k \in Ids, Issue(k)
      PROVE  TypeOK'
  <2>1. StartStage(k) /\ UNCHANGED <<commands, timing, current_cycle, pc, guard>>
    BY <1>3 DEF Issue
  <2>2. /\ events' \in Nat /\ issue_events' \in Nat /\ complete_events' \in Nat
        /\ max_active_commands' \in Int /\ last_event_cycle' \in Nat
    BY <1>3, RowTypes DEF Issue
  <2>3. active_commands' \in Int /\ completed_commands' \in Nat
    BY <1>3 DEF Issue
  <2>4. k \in Nat
    BY IdFacts
  <2>5. i' \in Nat \ {0}
    BY <1>3, <2>4 DEF Issue
  <2>6. progress' \in BOOLEAN
    BY <1>3, Zenon DEF Issue
  <2> QED BY <1>2, <2>1, <2>2, <2>3, <2>5, <2>6, Zenon
<1>4. ASSUME EndComplete \/ EndIssue
      PROVE  TypeOK'
  <2>1. UNCHANGED <<commands, timing, scheduling, current_cycle, progress, guard, counters>>
    BY <1>4 DEF EndComplete, EndIssue
  <2>2. i' \in Nat \ {0} /\ pc' \in {"complete", "issue", "advance"} \cup Returns
    BY <1>4 DEF EndComplete, EndIssue, Returns
  <2>3. Ids' = Ids
    BY <2>1 DEF Ids
  <2> QED BY <2>1, <2>2, <2>3, Zenon DEF scheduling, counters, rows
<1>5. ASSUME Advance
      PROVE  TypeOK'
  <2>1. UNCHANGED <<commands, timing, scheduling, counters>> /\ Ids' = Ids
    BY <1>5 DEF Advance, Ids
  <2>2. pc' \in {"complete", "issue", "advance"} \cup Returns
    BY <1>5 DEF Advance, Returns
  <2>3. NextEvents \subseteq Int
    BY NextEventsType
  <2>4. current_cycle' \in Nat
    <3>1. CASE NoEvent
      BY <1>5, <3>1 DEF Advance
    <3>2. CASE ~NoEvent
      BY <1>5, <2>3, <3>2 DEF Advance, NoEvent
    <3> QED BY <3>1, <3>2
  <2>5. i' \in Nat \ {0} /\ guard' \in Nat
    BY <1>5 DEF Advance
  <2>6. progress' \in BOOLEAN
    BY <1>5, Zenon DEF Advance
  <2> QED BY <2>1, <2>2, <2>4, <2>5, <2>6, Zenon DEF scheduling, counters, rows
<1>6. ASSUME WriteError
      PROVE  TypeOK'
  <2>1. UNCHANGED <<commands, timing, current_cycle, i, progress, guard>> /\ Ids' = Ids
    BY <1>6 DEF WriteError, Ids
  <2>2. pc' \in {"complete", "issue", "advance"} \cup Returns
    BY <1>6 DEF WriteError, Returns
  <2>3. UNCHANGED <<rows, completed_commands>>
    BY <1>6 DEF WriteError
  <2>4. CASE UNCHANGED <<scheduling, active_commands>>
    BY <2>1, <2>2, <2>3, <2>4, Zenon DEF scheduling, rows
  <2>5. ASSUME NEW k \in Ids, StartStage(k), active_commands' = active_commands + 1
        PROVE  TypeOK'
    <3>1. active_commands' \in Int
      BY <2>5
    <3> QED BY <1>2, <2>1, <2>2, <2>3, <2>5, <3>1, Zenon DEF rows
  <2> QED BY <1>6, <2>4, <2>5 DEF WriteError
<1>7. CASE UNCHANGED vars
  <2>1. Ids' = Ids
    BY <1>7 DEF vars, Ids
  <2> QED BY <1>7, <2>1, Zenon DEF vars, scheduling, counters, rows
<1> QED BY <1>1, <1>3, <1>4, <1>5, <1>6, <1>7 DEF Next, Terminated

-----------------------------------------------------------------------------
(* The effect of the two steps that change the command states, and of all  *)
(* the others, which leave them alone.                                     *)

LEMMA CompleteEffect ==
  ASSUME TypeOK, NEW k \in Ids, Complete(k)
  PROVE  /\ Ids' = Ids /\ commands' = commands
         /\ k \in ActiveIds /\ ActiveIds' = ActiveIds \ {k}
         /\ \A j \in Ids : j # k => Need(j)' = Need(j) /\ status'[j] = status[j]
                                     /\ stage'[j] = stage[j]
         /\ stage'[k] = stage[k] + 1 /\ status'[k] # "ACTIVE"
         /\ status'[k] = "DONE" <=> stage[k] + 1 >= StageCount(commands[k])
<1>1. Ids' = Ids /\ commands' = commands
  BY DEF Complete, Ids
<1>2. k \in ActiveIds
  BY DEF Complete, FirstFrom, EndingNow, ActiveIds
<1>3. /\ stage' = [stage EXCEPT ![k] = @ + 1]
      /\ status' = [status EXCEPT ![k] = IF stage[k] + 1 >= StageCount(commands[k])
                                         THEN "DONE" ELSE "WAITING"]
  BY DEF Complete, EndStage, LastStage
<1>4. stage'[k] = stage[k] + 1 /\ status'[k] # "ACTIVE"
      /\ (status'[k] = "DONE" <=> stage[k] + 1 >= StageCount(commands[k]))
  BY <1>3 DEF TypeOK, TableTypeOK
<1>5. \A j \in Ids : j # k => status'[j] = status[j] /\ stage'[j] = stage[j]
  BY <1>3 DEF TypeOK, TableTypeOK
<1>6. \A j \in Ids : j # k => Need(j)' = Need(j)
  BY <1>1, <1>5 DEF Need
<1>7. ActiveIds' = ActiveIds \ {k}
  BY <1>1, <1>4, <1>5 DEF ActiveIds, Active
<1> QED BY <1>1, <1>2, <1>4, <1>5, <1>6, <1>7

LEMMA StartEffect ==
  ASSUME TypeOK, NEW k \in Ids, StartStage(k), UNCHANGED commands
  PROVE  /\ Ids' = Ids /\ stage' = stage /\ status[k] = "WAITING"
         /\ k \notin ActiveIds /\ ActiveIds' = ActiveIds \cup {k}
         /\ status'[k] = "ACTIVE"
         /\ \A j \in Ids : Need(j)' = Need(j)
         /\ \A j \in Ids : j # k => status'[j] = status[j] /\ stage_end'[j] = stage_end[j]
         /\ stage_end'[k] = current_cycle + Duration(k)
         /\ \A r \in Need(k) : owner[r] = None /\ owner'[r] = k
         /\ \A r \in AllResources : r \notin Need(k) => owner'[r] = owner[r]
<1>1. Ids' = Ids /\ stage' = stage
  BY DEF StartStage, BeginStage, Ids
<1>2. status[k] = "WAITING" /\ \A r \in Need(k) : owner[r] = None
  BY DEF StartStage, FirstFrom, Issuable, Waiting, ResourcesFree
<1>3. /\ status' = [status EXCEPT ![k] = "ACTIVE"]
      /\ stage_end' = [stage_end EXCEPT ![k] = current_cycle + Duration(k)]
      /\ owner' = [r \in AllResources |-> IF r \in Need(k) THEN k ELSE owner[r]]
  BY DEF StartStage, BeginStage, Reserve
<1>4. /\ status'[k] = "ACTIVE" /\ stage_end'[k] = current_cycle + Duration(k)
      /\ \A j \in Ids : j # k => status'[j] = status[j] /\ stage_end'[j] = stage_end[j]
  BY <1>3 DEF TypeOK, TableTypeOK
<1>5. \A j \in Ids : Need(j)' = Need(j)
  BY <1>1 DEF Need
<1>6. k \notin ActiveIds /\ ActiveIds' = ActiveIds \cup {k}
  BY <1>1, <1>2, <1>4 DEF ActiveIds, Active
<1>7. Need(k) \subseteq AllResources
  BY IdFacts
<1>8. /\ \A r \in Need(k) : owner'[r] = k
      /\ \A r \in AllResources : r \notin Need(k) => owner'[r] = owner[r]
  BY <1>3, <1>7
<1> QED BY <1>1, <1>2, <1>4, <1>5, <1>6, <1>8

LEMMA StepKinds ==
  ASSUME [Next]_vars
  PROVE  \/ \E k \in Ids : Complete(k)
         \/ \E k \in Ids : pc = "issue" /\ StartStage(k) /\ UNCHANGED commands
         \/ UNCHANGED <<commands, scheduling>>
<1>1. ASSUME EndComplete \/ EndIssue \/ Advance \/ UNCHANGED vars
      PROVE  UNCHANGED <<commands, scheduling>>
  BY <1>1 DEF EndComplete, EndIssue, Advance, vars, scheduling
<1>2. ASSUME WriteError
      PROVE  \/ UNCHANGED <<commands, scheduling>>
             \/ \E k \in Ids : pc = "issue" /\ StartStage(k) /\ UNCHANGED commands
  BY <1>2 DEF WriteError
<1>3. ASSUME NEW k \in Ids, Issue(k)
      PROVE  pc = "issue" /\ StartStage(k) /\ UNCHANGED commands
  BY <1>3 DEF Issue
<1> QED BY <1>1, <1>2, <1>3 DEF Next, Terminated

-----------------------------------------------------------------------------
(* Every step preserves the scheduling invariants.                         *)

LEMMA StepStageAgrees ==
  ASSUME TypeOK, StageAgrees, [Next]_vars
  PROVE  StageAgrees'
<1>1. ASSUME NEW k \in Ids, Complete(k)
      PROVE  StageAgrees'
  <2>1. ~Done(k)
    BY <1>1, CompleteEffect DEF ActiveIds, Active, Done
  <2>2. stage[k] \in 0..(StageCount(commands[k]) - 1) /\ StageCount(commands[k]) \in {2, 4}
    BY <2>1, StageInRange
  <2>3. /\ status'[k] = "DONE" => stage'[k] = StageCount(commands'[k])
        /\ status'[k] # "DONE" => stage'[k] < StageCount(commands'[k])
    BY <1>1, <2>2, CompleteEffect
  <2>4. \A j \in Ids : j # k =>
          /\ status'[j] = "DONE" => stage'[j] = StageCount(commands'[j])
          /\ status'[j] # "DONE" => stage'[j] < StageCount(commands'[j])
    BY <1>1, CompleteEffect DEF StageAgrees, Done
  <2> QED BY <1>1, <2>3, <2>4, CompleteEffect DEF StageAgrees, Done
<1>2. ASSUME NEW k \in Ids, StartStage(k), UNCHANGED commands
      PROVE  StageAgrees'
  BY <1>2, StartEffect DEF StageAgrees, Done
<1>3. CASE UNCHANGED <<commands, scheduling>>
  BY <1>3 DEF scheduling, StageAgrees, Done, Ids
<1> QED BY <1>1, <1>2, <1>3, StepKinds

LEMMA StepOwnersExact ==
  ASSUME TypeOK, OwnersExact, [Next]_vars
  PROVE  OwnersExact'
<1>1. ASSUME NEW k \in Ids, Complete(k)
      PROVE  OwnersExact'
  <2> DEFINE held == {ChannelOf(commands[k]), ChipOf(commands[k]),
                      PlaneOf(commands[k]), ComputeOf(commands[k])}
  <2>1. \A r \in AllResources :
          owner'[r] = IF r \in held /\ owner[r] = k THEN None ELSE owner[r]
    BY <1>1 DEF Complete, EndStage, Release
  <2>2. Need(k) \subseteq held
    BY NeedsFacts DEF Need
  <2> HIDE DEF held
  <2>3. ASSUME NEW j \in ActiveIds', NEW r \in Need(j)'
        PROVE  owner'[r] = j
    <3>1. j \in ActiveIds /\ j # k /\ j \in Ids /\ r \in Need(j)
      BY <1>1, <2>3, CompleteEffect DEF ActiveIds
    <3>2. r \in AllResources /\ owner[r] = j
      BY <3>1, IdFacts DEF OwnersExact
    <3> QED BY <2>1, <3>1, <3>2
  <2>4. ASSUME NEW r \in AllResources, owner'[r] # None
        PROVE  (owner[r] \in ActiveIds /\ r \in Need(owner[r]))'
    <3>1. owner'[r] = owner[r] /\ ~(r \in held /\ owner[r] = k)
      BY <2>1, <2>4
    <3>2. PICK m \in Ids : m = owner[r] /\ m \in ActiveIds /\ r \in Need(m)
      BY <2>4, <3>1 DEF OwnersExact, ActiveIds
    <3>3. m # k
      BY <2>2, <3>1, <3>2
    <3>4. m \in ActiveIds' /\ Need(m)' = Need(m)
      BY <1>1, <3>2, <3>3, CompleteEffect
    <3> QED BY <3>1, <3>2, <3>4 DEF Need
  <2> QED BY <2>3, <2>4 DEF OwnersExact
<1>2. ASSUME NEW k \in Ids, StartStage(k), UNCHANGED commands
      PROVE  OwnersExact'
  <2>1. ASSUME NEW j \in ActiveIds', NEW r \in Need(j)'
        PROVE  owner'[r] = j
    <3>1. (j \in ActiveIds \/ j = k) /\ j \in Ids /\ r \in Need(j)
      BY <1>2, <2>1, StartEffect DEF ActiveIds
    <3>2. CASE j = k
      BY <1>2, <3>1, <3>2, StartEffect
    <3>3. CASE j \in ActiveIds
      <4>1. r \in AllResources /\ owner[r] = j /\ j # None
        BY <3>1, <3>3, IdFacts DEF OwnersExact
      <4>2. r \notin Need(k)
        BY <1>2, <4>1, StartEffect
      <4> QED BY <1>2, <4>1, <4>2, StartEffect
    <3> QED BY <3>1, <3>2, <3>3
  <2>2. ASSUME NEW r \in AllResources, owner'[r] # None
        PROVE  (owner[r] \in ActiveIds /\ r \in Need(owner[r]))'
    <3>1. PICK m \in Ids : m = owner'[r] /\ m \in ActiveIds' /\ r \in Need(m)
      <4>1. CASE r \in Need(k)
        BY <1>2, <4>1, StartEffect
      <4>2. CASE r \notin Need(k)
        BY <1>2, <2>2, <4>2, StartEffect DEF OwnersExact, ActiveIds
      <4> QED BY <4>1, <4>2
    <3>2. Need(m)' = Need(m)
      BY <1>2, StartEffect
    <3> QED BY <3>1, <3>2 DEF Need
  <2> QED BY <2>1, <2>2 DEF OwnersExact
<1>3. CASE UNCHANGED <<commands, scheduling>>
  <2>1. ActiveIds' = ActiveIds /\ owner' = owner /\ \A j : Need(j)' = Need(j)
    BY <1>3 DEF scheduling, ActiveIds, Active, Ids, Need
  <2> QED BY <2>1 DEF OwnersExact
<1> QED BY <1>1, <1>2, <1>3, StepKinds

(* Indices the issue pass has reached or gone by.                          *)
LEMMA PassedIsBlocked ==
  ASSUME TypeOK, PassBlocks, pc = "issue", NEW j \in Ids, Waiting(j),
         j < i \/ j \notin Issuable(current_cycle)
  PROVE  Blocked(j)
<1>1. commands[j].arrival_cycle <= current_cycle
  BY IdFacts DEF TypeOK, TableTypeOK, Command
<1>2. CASE j < i
  BY <1>2 DEF PassBlocks
<1>3. CASE j \notin Issuable(current_cycle)
  BY <1>1, <1>3 DEF Issuable, ResourcesFree, Blocked
<1> QED BY <1>2, <1>3

(* The heart of the chip order: a command can only start when every        *)
(* earlier command of its chip is done.  One under way would hold the      *)
(* chip; one that waits was reached by the pass first and found blocked by *)
(* a holder of the chip or of the channel, which the later command, still  *)
(* at its transfer of command and address, needs as well.                  *)
LEMMA StartInOrder ==
  ASSUME TypeOK, OwnersExact, ChipInOrder, PassBlocks,
         pc = "issue", NEW k \in Ids, StartStage(k),
         NEW j \in Ids, j < k, SameChip(commands[j], commands[k])
  PROVE  Done(j)
<1>1. Waiting(k) /\ (\A r \in Need(k) : owner[r] = None)
      /\ \A l \in Issuable(current_cycle) : l >= i => k <= l
  BY DEF StartStage, FirstFrom, Issuable, ResourcesFree
<1>2. CASE Started(k)
  BY <1>2 DEF ChipInOrder
<1>3. CASE ~Started(k)
  <2>1. stage[k] = 0
    <3>1. stage[k] \in 0..4
      BY DEF TypeOK, TableTypeOK
    <3> QED BY <1>3, <3>1 DEF Started
  <2>2. Need(k) = {ChannelOf(commands[k]), ChipOf(commands[k])}
    BY <2>1, NeedsFacts DEF Need
  <2>3. owner[ChannelOf(commands[j])] = None /\ owner[ChipOf(commands[j])] = None
    BY <1>1, <2>2, SameChipFacts
  <2>4. ~Active(j)
    <3>1. ChipOf(commands[j]) \in Need(j)
      BY NeedsFacts DEF Need
    <3> QED BY <2>3, <3>1, IdFacts DEF OwnersExact, ActiveIds
  <2>5. ~Waiting(j)
    <3>1. SUFFICES ASSUME Waiting(j) PROVE FALSE
      OBVIOUS
    <3>2. j \in Int /\ k \in Int /\ i \in Int
      BY IdFacts DEF TypeOK, TableTypeOK
    <3>3. j < i \/ j \notin Issuable(current_cycle)
      BY <1>1, <3>2
    <3>4. Blocked(j)
      BY <3>1, <3>3, PassedIsBlocked
    <3> QED BY <2>3, <3>4, BlockedChip
  <2> QED BY <2>4, <2>5 DEF TypeOK, TableTypeOK, Active, Waiting, Done
<1> QED BY <1>2, <1>3

LEMMA StepChipInOrder ==
  ASSUME TypeOK, OwnersExact, ChipInOrder, PassBlocks, [Next]_vars
  PROVE  ChipInOrder'
<1>1. ASSUME NEW k \in Ids, Complete(k)
      PROVE  ChipInOrder'
  <2>1. \A m \in Ids : Started(m)' => Started(m)
    BY <1>1, CompleteEffect DEF Started, Active, ActiveIds
  <2>2. \A j \in Ids : Done(j) => Done(j)'
    BY <1>1, CompleteEffect DEF Done, Active, ActiveIds
  <2> QED BY <1>1, <2>1, <2>2, CompleteEffect DEF ChipInOrder
<1>2. ASSUME NEW k \in Ids, pc = "issue", StartStage(k), UNCHANGED commands
      PROVE  ChipInOrder'
  <2>1. \A j \in Ids : Done(j) => Done(j)'
    BY <1>2, StartEffect DEF Done
  <2>2. \A m \in Ids : Started(m)' => Started(m) \/ m = k
    BY <1>2, StartEffect DEF Started, Active
  <2>3. ASSUME NEW j \in Ids, NEW m \in Ids, j < m,
               SameChip(commands[j], commands[m]), Started(m)'
        PROVE  Done(j)'
    <3>1. CASE m = k
      BY <1>2, <2>1, <2>3, <3>1, StartInOrder
    <3>2. CASE Started(m)
      BY <2>1, <2>3, <3>2 DEF ChipInOrder
    <3> QED BY <2>2, <2>3, <3>1, <3>2
  <2> QED BY <1>2, <2>3, StartEffect DEF ChipInOrder
<1>3. CASE UNCHANGED <<commands, scheduling>>
  BY <1>3 DEF scheduling, ChipInOrder, Started, Active, Done, Ids
<1> QED BY <1>1, <1>2, <1>3, StepKinds

LEMMA StepPassBlocks ==
  ASSUME TypeOK, PassBlocks, [Next]_vars
  PROVE  PassBlocks'
<1>1. ASSUME NEW k \in Ids, Complete(k)
      PROVE  PassBlocks'
  BY <1>1 DEF Complete, PassBlocks
<1>2. ASSUME NEW k \in Ids, Issue(k)
      PROVE  PassBlocks'
  <2>1. StartStage(k) /\ pc = "issue" /\ pc' = pc /\ i' = k + 1 /\ UNCHANGED commands
    BY <1>2 DEF Issue
  <2>2. ASSUME NEW j \in Ids, Waiting(j)', j < k + 1
        PROVE  Blocked(j)'
    <3>1. j # k /\ Waiting(j)
      BY <2>1, <2>2, StartEffect DEF Waiting
    <3>2. j < i \/ j \notin Issuable(current_cycle)
      <4>1. j \in Int /\ k \in Int
        BY IdFacts
      <4>3. i \in Int
        BY DEF TypeOK
      <4>2. \A l \in Issuable(current_cycle) : l >= i => k <= l
        BY <2>1 DEF StartStage, FirstFrom
      <4> QED BY <2>2, <3>1, <4>1, <4>3, <4>2
    <3>3. PICK r \in Need(j) : owner[r] # None
      BY <2>1, <3>1, <3>2, PassedIsBlocked DEF Blocked
    <3>4. owner'[r] = owner[r] /\ r \in Need(j)'
      BY <2>1, <3>3, IdFacts, StartEffect
    <3> QED BY <3>3, <3>4 DEF Blocked
  <2> QED BY <2>1, <2>2, StartEffect DEF PassBlocks
<1>3. CASE EndComplete
  BY <1>3, IdFacts DEF EndComplete, PassBlocks, scheduling, Ids
<1>4. CASE EndIssue
  <2>1. \A j \in Ids : Waiting(j) => Blocked(j)
    BY <1>4, PassedIsBlocked DEF EndIssue, NoneFrom
  <2> QED BY <1>4, <2>1 DEF EndIssue, PassBlocks, scheduling, Ids, Waiting, Blocked, Need
<1>5. ASSUME Advance \/ WriteError
      PROVE  PassBlocks'
  BY <1>5 DEF Advance, WriteError, PassBlocks
<1>6. CASE UNCHANGED vars
  BY <1>6 DEF vars, scheduling, PassBlocks, Ids, Waiting, Blocked, Need
<1> QED BY <1>1, <1>2, <1>3, <1>4, <1>5, <1>6 DEF Next, Terminated

LEMMA StepEndsAhead ==
  ASSUME TypeOK, StageAgrees, EndsAhead, [Next]_vars
  PROVE  EndsAhead'
<1>1. ASSUME NEW k \in Ids, Complete(k)
      PROVE  EndsAhead'
  <2>1. /\ pc = "complete" /\ i' = k + 1
        /\ UNCHANGED <<pc, stage_end, current_cycle>>
        /\ \A j \in EndingNow : j >= i => k <= j
    BY <1>1 DEF Complete, EndStage, FirstFrom
  <2>2. ActiveIds' \subseteq ActiveIds /\ k \notin ActiveIds'
    BY <1>1, CompleteEffect
  <2>3. ASSUME NEW j \in ActiveIds'
        PROVE  /\ stage_end[j] >= current_cycle
               /\ j < k + 1 => stage_end[j] > current_cycle
    <3>1. j \in Ids /\ j \in ActiveIds /\ j # k /\ j \in Int /\ k \in Int /\ i \in Int
          /\ stage_end[j] \in Int
      BY <2>2, <2>3, IdFacts DEF TypeOK, TableTypeOK, ActiveIds
    <3>2. CASE j < i
      BY <2>1, <3>1, <3>2 DEF EndsAhead, TypeOK, TableTypeOK
    <3>3. CASE j >= i /\ j < k
      <4>1. stage_end[j] # current_cycle
        BY <2>1, <3>1, <3>3 DEF EndingNow, ActiveIds
      <4> QED BY <2>1, <3>1, <4>1 DEF EndsAhead, TypeOK, TableTypeOK
    <3>4. CASE j > k
      BY <2>1, <3>1, <3>4 DEF EndsAhead
    <3> QED BY <3>1, <3>2, <3>3, <3>4
  <2> QED BY <2>1, <2>3 DEF EndsAhead
<1>2. ASSUME NEW k \in Ids, Issue(k)
      PROVE  EndsAhead'
  <2>1. StartStage(k) /\ pc = "issue" /\ UNCHANGED <<commands, pc, current_cycle>>
    BY <1>2 DEF Issue
  <2>2. Duration(k) \in Nat \ {0}
    BY <2>1, StartEffect, StageInRange DEF Done
  <2>3. stage_end'[k] > current_cycle
    BY <2>1, <2>2, StartEffect DEF TypeOK, TableTypeOK
  <2>4. \A j \in ActiveIds : stage_end'[j] > current_cycle
    BY <2>1, StartEffect DEF EndsAhead, ActiveIds
  <2> QED BY <2>1, <2>3, <2>4, StartEffect DEF EndsAhead
<1>3. CASE EndComplete
  <2>1. pc = "complete" /\ pc' = "issue" /\ UNCHANGED <<commands, status, stage_end, current_cycle>>
    BY <1>3 DEF EndComplete, scheduling
  <2>2. ASSUME NEW j \in ActiveIds
        PROVE  stage_end[j] > current_cycle
    <3>1. j \in Ids /\ j \in Int /\ i \in Int /\ stage_end[j] \in Int
      BY <2>2, IdFacts DEF TypeOK, TableTypeOK, ActiveIds
    <3>2. j < i \/ stage_end[j] # current_cycle
      BY <1>3, <2>2 DEF EndComplete, NoneFrom, EndingNow, ActiveIds
    <3> QED BY <2>1, <3>1, <3>2 DEF EndsAhead, TypeOK, TableTypeOK
  <2>3. ActiveIds' = ActiveIds
    BY <2>1 DEF ActiveIds, Active, Ids
  <2> QED BY <2>1, <2>2, <2>3 DEF EndsAhead
<1>4. CASE EndIssue
  <2>1. ActiveIds' = ActiveIds
    BY <1>4 DEF EndIssue, scheduling, ActiveIds, Active, Ids
  <2> QED BY <1>4, <2>1 DEF EndIssue, scheduling, EndsAhead
<1>5. CASE Advance
  <2>1. ActiveIds' = ActiveIds /\ stage_end' = stage_end
    BY <1>5 DEF Advance, scheduling, ActiveIds, Active, Ids
  <2>2. CASE NoEvent
    BY <1>5, <2>2 DEF Advance, EndsAhead
  <2>3. CASE ~NoEvent
    <3>1. /\ i' = 1 /\ pc' \in {"complete", "guard"}
          /\ \A t \in NextEvents : current_cycle' <= t
      BY <1>5, <2>3 DEF Advance
    <3>2. \A j \in ActiveIds : stage_end[j] >= current_cycle' /\ ~(j < 1)
      BY <3>1, NextEventsType, StepTypeOK, IdFacts DEF TypeOK, TableTypeOK, ActiveIds
    <3> QED BY <2>1, <3>1, <3>2 DEF EndsAhead
  <2> QED BY <2>2, <2>3
<1>6. CASE WriteError
  BY <1>6 DEF WriteError, EndsAhead
<1>7. CASE UNCHANGED vars
  BY <1>7 DEF vars, scheduling, EndsAhead, ActiveIds, Active, Ids
<1> QED BY <1>1, <1>2, <1>3, <1>4, <1>5, <1>6, <1>7 DEF Next, Terminated

-----------------------------------------------------------------------------
(* Every step preserves the counts.                                        *)

(* The sets whose sizes the counters report, before and after a step.      *)
LEMMA CompleteSets ==
  ASSUME TypeOK, StageAgrees, NEW k \in Ids, Complete(k)
  PROVE  /\ Cardinality(ActiveIds') = Cardinality(ActiveIds) - 1
         /\ Cardinality(DoneIds') = Cardinality(DoneIds)
              + (IF stage[k] + 1 >= StageCount(commands[k]) THEN 1 ELSE 0)
         /\ Cardinality(EndedStages') = Cardinality(EndedStages) + 1
<1>1. Cardinality(ActiveIds') = Cardinality(ActiveIds) - 1
  BY CompleteEffect, FiniteIds, FS_RemoveElement
<1>2. k \notin DoneIds /\ ~Done(k)
  BY CompleteEffect DEF DoneIds, Done, ActiveIds, Active
<1>3. DoneIds' = IF stage[k] + 1 >= StageCount(commands[k]) THEN DoneIds \cup {k} ELSE DoneIds
  BY <1>2, CompleteEffect DEF DoneIds, Done
<1>4. Cardinality(DoneIds) \in Nat /\ Cardinality(DoneIds \cup {k}) = Cardinality(DoneIds) + 1
  BY <1>2, FiniteIds, FS_AddElement, FS_CardinalityType
<1>5. Cardinality(DoneIds') = Cardinality(DoneIds)
              + (IF stage[k] + 1 >= StageCount(commands[k]) THEN 1 ELSE 0)
  BY <1>3, <1>4
<1>6. stage[k] \in 0..3 /\ stage \in [Ids -> 0..4]
  BY <1>2, StageInRange DEF TypeOK, TableTypeOK
<1>7. <<k, stage[k]>> \notin EndedStages
  BY <1>6 DEF EndedStages
<1>8. EndedStages' = EndedStages \cup {<<k, stage[k]>>}
  <2>1. ASSUME NEW j \in Ids, NEW n \in 0..3
        PROVE  n < stage'[j] <=> n < stage[j] \/ (j = k /\ n = stage[k])
    <3>1. CASE j = k
      BY <1>6, <3>1, CompleteEffect
    <3>2. CASE j # k
      BY <3>2, CompleteEffect
    <3> QED BY <3>1, <3>2
  <2>2. EndedStages' = {e \in Ids \X (0..3) : e[2] < stage'[e[1]]}
    BY CompleteEffect DEF EndedStages
  <2> QED BY <1>6, <2>1, <2>2 DEF EndedStages
<1>9. Cardinality(EndedStages') = Cardinality(EndedStages) + 1
  BY <1>7, <1>8, FiniteIds, FS_AddElement
<1> QED BY <1>1, <1>5, <1>9

LEMMA StartSets ==
  ASSUME TypeOK, NEW k \in Ids, StartStage(k), UNCHANGED commands
  PROVE  /\ Cardinality(ActiveIds') = Cardinality(ActiveIds) + 1
         /\ DoneIds' = DoneIds /\ EndedStages' = EndedStages
<1>1. Cardinality(ActiveIds') = Cardinality(ActiveIds) + 1
  BY StartEffect, FiniteIds, FS_AddElement
<1>2. DoneIds' = DoneIds
  BY StartEffect DEF DoneIds, Done
<1>3. EndedStages' = EndedStages
  BY StartEffect DEF EndedStages
<1> QED BY <1>1, <1>2, <1>3

(* The counters, with the sets they count named.                           *)
LEMMA CountersNamed ==
  StateCounts <=>
    /\ active_commands = Cardinality(ActiveIds)
    /\ completed_commands = Cardinality(DoneIds)
    /\ complete_events = Cardinality(EndedStages)
    /\ pc # "write_error" =>
         /\ issue_events = complete_events + active_commands
         /\ events = issue_events + complete_events
BY DEF StateCounts, DoneIds, EndedStages

LEMMA StepStateCounts ==
  ASSUME TypeOK, StageAgrees, StateCounts, [Next]_vars
  PROVE  StateCounts'
<1> DEFINE Agree == /\ active_commands = Cardinality(ActiveIds)
                    /\ completed_commands = Cardinality(DoneIds)
                    /\ complete_events = Cardinality(EndedStages)
           Balance == /\ issue_events = complete_events + active_commands
                      /\ events = issue_events + complete_events
<1>0. Agree /\ (pc # "write_error" => Balance)
  BY CountersNamed
<1>types. /\ active_commands \in Int /\ completed_commands \in Int
      /\ events \in Int /\ issue_events \in Int /\ complete_events \in Int
  BY DEF TypeOK, TableTypeOK
<1> SUFFICES Agree' /\ (pc' # "write_error" => Balance')
  BY DEF StateCounts, DoneIds, EndedStages
<1>1. ASSUME NEW k \in Ids, Complete(k)
      PROVE  Agree' /\ Balance'
  <2>1. /\ pc = "complete" /\ active_commands' = active_commands - 1
        /\ completed_commands' = IF stage[k] + 1 >= StageCount(commands[k])
                                 THEN completed_commands + 1 ELSE completed_commands
        /\ events' = events + 1 /\ issue_events' = issue_events
        /\ complete_events' = complete_events + 1
    BY <1>1 DEF Complete, LastStage, CountRow
  <2>2. Agree'
    BY <1>0, <1>1, <1>types, <2>1, CompleteSets
  <2>3. Balance'
    BY <1>0, <1>types, <2>1
  <2> QED BY <2>2, <2>3
<1>2. ASSUME NEW k \in Ids, Issue(k)
      PROVE  Agree' /\ Balance'
  <2>1. /\ pc = "issue" /\ StartStage(k) /\ UNCHANGED <<commands, completed_commands>>
        /\ active_commands' = active_commands + 1
        /\ events' = events + 1 /\ issue_events' = issue_events + 1
        /\ complete_events' = complete_events
    BY <1>2 DEF Issue, CountRow
  <2>2. Agree'
    BY <1>0, <2>1, StartSets
  <2>3. Balance'
    BY <1>0, <1>types, <2>1
  <2> QED BY <2>2, <2>3
<1>3. ASSUME UNCHANGED <<commands, status, stage, counters>>
      PROVE  Agree' /\ (Balance => Balance')
  <2>1. ActiveIds' = ActiveIds /\ DoneIds' = DoneIds /\ EndedStages' = EndedStages
    BY <1>3 DEF ActiveIds, Active, DoneIds, Done, EndedStages, Ids
  <2> QED BY <1>0, <1>3, <2>1 DEF counters, rows
<1>4. ASSUME EndComplete \/ EndIssue \/ Advance \/ UNCHANGED vars
      PROVE  Agree' /\ (pc' # "write_error" => Balance')
  <2>1. UNCHANGED <<commands, status, stage, counters>>
    BY <1>4 DEF EndComplete, EndIssue, Advance, vars, scheduling
  <2>2. pc' # "write_error" => pc # "write_error"
    BY <1>4 DEF EndComplete, EndIssue, Advance, vars
  <2> QED BY <1>0, <1>3, <2>1, <2>2
<1>5. CASE WriteError
  <2>1. pc' = "write_error" /\ UNCHANGED <<commands, rows, completed_commands>>
    BY <1>5 DEF WriteError
  <2>2. ASSUME UNCHANGED <<scheduling, active_commands>>
        PROVE  Agree'
    BY <1>3, <2>1, <2>2 DEF scheduling, counters
  <2>3. ASSUME NEW k \in Ids, StartStage(k), active_commands' = active_commands + 1
        PROVE  Agree'
    BY <1>0, <2>1, <2>3, StartSets DEF rows
  <2> QED BY <1>5, <2>1, <2>2, <2>3 DEF WriteError
<1> QED BY <1>1, <1>2, <1>4, <1>5 DEF Next, Terminated

LEMMA StepGuardCounts ==
  ASSUME TypeOK, GuardCounts, [Next]_vars
  PROVE  GuardCounts'
<1>1. ASSUME NEW k \in Ids, Complete(k)
      PROVE  GuardCounts'
  <2>1. pc = "complete" /\ pc' = pc /\ guard' = guard /\ complete_events' = complete_events + 1
    BY <1>1 DEF Complete, CountRow
  <2> QED BY <2>1 DEF GuardCounts, TypeOK, TableTypeOK
<1>2. ASSUME NEW k \in Ids, Issue(k)
      PROVE  GuardCounts'
  BY <1>2 DEF Issue, CountRow, GuardCounts
<1>3. CASE EndComplete
  <2>1. /\ pc = "complete" /\ pc' = "issue" /\ UNCHANGED <<guard, complete_events>>
        /\ \A k \in EndingNow : k < i
    BY <1>3 DEF EndComplete, NoneFrom, counters, rows
  <2>2. ~\E k \in EndingNow : k >= i
    BY <2>1, IdFacts DEF EndingNow, TypeOK, TableTypeOK
  <2> QED BY <2>1, <2>2 DEF GuardCounts
<1>4. CASE EndIssue
  BY <1>4 DEF EndIssue, GuardCounts, counters, rows
<1>5. CASE Advance
  <2>1. pc = "advance" /\ UNCHANGED <<commands, status, stage_end, complete_events>>
    BY <1>5 DEF Advance, scheduling, counters, rows
  <2>2. CASE NoEvent
    BY <1>5, <2>1, <2>2 DEF Advance, GuardCounts
  <2>3. CASE ~NoEvent
    <3>1. guard' = guard + 1 /\ i' = 1 /\ pc' \in {"complete", "guard"}
      BY <1>5, <2>3 DEF Advance
    <3>2. PICK t \in NextEvents : current_cycle' = t
      BY <1>5, <2>3 DEF Advance
    <3>3. PICK k \in ActiveIds : stage_end[k] = t
      BY NextEventsType
    <3>4. k \in EndingNow'
      BY <2>1, <3>2, <3>3 DEF EndingNow, ActiveIds, Active, Ids
    <3>5. k >= i'
      BY <3>1, <3>3, IdFacts DEF ActiveIds
    <3>6. guard <= complete_events /\ guard \in Nat /\ complete_events \in Nat
      BY <2>1 DEF GuardCounts, TypeOK, TableTypeOK
    <3> QED BY <2>1, <3>1, <3>4, <3>5, <3>6 DEF GuardCounts
  <2> QED BY <2>2, <2>3
<1>6. CASE WriteError
  BY <1>6 DEF WriteError, GuardCounts
<1>7. CASE UNCHANGED vars
  BY <1>7 DEF vars, scheduling, counters, rows, GuardCounts, EndingNow, Active, Ids
<1> QED BY <1>1, <1>2, <1>3, <1>4, <1>5, <1>6, <1>7 DEF Next, Terminated

LEMMA StepStreamFits ==
  ASSUME TypeOK, StreamFits, [Next]_vars
  PROVE  StreamFits'
<1>1. commands' = commands
  BY StepKinds DEF Complete
<1>2. CASE EndIssue
  BY <1>1, <1>2 DEF EndIssue, StreamFits, counters, TypeOK, TableTypeOK
<1>3. ASSUME ~EndIssue
      PROVE  pc' = "advance" => pc = "advance" /\ completed_commands' = completed_commands
  BY <1>3 DEF Next, Complete, Issue, EndComplete, Advance, WriteError, Terminated, vars, counters
<1> QED BY <1>1, <1>2, <1>3 DEF StreamFits

-----------------------------------------------------------------------------
(* The error exits.  In the advance pass some command is unfinished: it is *)
(* under way, or a command that is blocks it.  What is under way ends in   *)
(* the future, so there is an event to move to.                            *)
LEMMA SomethingRuns ==
  ASSUME IInv, pc = "advance"
  PROVE  ActiveIds # {}
<1> USE DEF IInv
<1>1. PICK k \in Ids : ~Done(k)
  <2>1. SUFFICES ASSUME \A k \in Ids : Done(k) PROVE FALSE
    OBVIOUS
  <2>2. DoneIds = Ids
    BY <2>1 DEF DoneIds
  <2>3. completed_commands = Len(commands)
    BY <2>2, FiniteIds, CountersNamed
  <2> QED BY <2>3, IdFacts DEF StreamFits
<1>2. CASE Active(k)
  BY <1>2 DEF ActiveIds
<1>3. CASE Waiting(k)
  <2>1. PICK r \in Need(k) : owner[r] # None
    BY <1>3 DEF PassBlocks, Blocked
  <2> QED BY <2>1, IdFacts DEF OwnersExact
<1> QED BY <1>1, <1>2, <1>3 DEF TypeOK, TableTypeOK, Active, Waiting, Done

LEMMA NoAbortStep ==
  ASSUME IInv, Advance
  PROVE  ~NoEvent /\ pc' = "complete"
<1> USE DEF IInv
<1>1. pc = "advance"
  BY DEF Advance
<1>2. NextEvents # {} /\ \A t \in NextEvents : t > current_cycle
  BY <1>1, SomethingRuns, NextEventsType DEF EndsAhead
<1>3. ~NoEvent
  BY <1>2, NextEventsType DEF NoEvent, TypeOK, TableTypeOK
<1>4. guard + 1 < GuardLimit
  <2>1. guard <= complete_events /\ complete_events = Cardinality(EndedStages)
    BY <1>1, CountersNamed DEF GuardCounts
  <2>2. Cardinality(EndedStages) <= 4 * Len(commands) /\ Len(commands) \in Nat
    BY FiniteIds, IdFacts
  <2>3. Len(commands) <= IFC_SSDSIM_MAX_COMMANDS /\ IFC_SSDSIM_MAX_COMMANDS \in Nat
    BY LimitsAssumption DEF StreamFits
  <2>4. guard \in Nat /\ complete_events \in Nat
    BY DEF TypeOK, TableTypeOK
  <2>5. GuardLimit \in Nat /\ GuardLimit > 4 * IFC_SSDSIM_MAX_COMMANDS + 1
    BY EventLoopAssumption
  <2> QED BY <2>1, <2>2, <2>3, <2>4, <2>5
<1> QED BY <1>3, <1>4 DEF Advance

LEMMA StepNoAbort ==
  ASSUME IInv, [Next]_vars
  PROVE  NoAbort'
<1>1. pc \notin {"no_event", "guard"}
  BY DEF IInv, NoAbort
<1>2. CASE Advance
  BY <1>2, NoAbortStep DEF NoAbort
<1>3. CASE EndIssue
  BY <1>3 DEF EndIssue, NoAbort
<1>4. ASSUME ~Advance, ~EndIssue
      PROVE  pc' = pc \/ pc' \in {"issue", "write_error"}
  BY <1>4 DEF Next, Complete, Issue, EndComplete, WriteError, Terminated, vars
<1> QED BY <1>1, <1>2, <1>3, <1>4 DEF NoAbort

LEMMA StepIInv ==
  ASSUME IInv, [Next]_vars
  PROVE  IInv'
<1>1. /\ TypeOK /\ OwnersExact /\ ChipInOrder /\ StageAgrees /\ EndsAhead
      /\ PassBlocks /\ StateCounts /\ GuardCounts /\ StreamFits
  BY DEF IInv
<1>2. TypeOK' /\ OwnersExact' /\ ChipInOrder' /\ StageAgrees'
  BY <1>1, StepTypeOK, StepOwnersExact, StepChipInOrder, StepStageAgrees
<1>3. EndsAhead' /\ PassBlocks'
  BY <1>1, StepEndsAhead, StepPassBlocks
<1>4. StateCounts' /\ GuardCounts' /\ StreamFits'
  BY <1>1, StepStateCounts, StepGuardCounts, StepStreamFits
<1> QED BY <1>2, <1>3, <1>4, StepNoAbort DEF IInv

-----------------------------------------------------------------------------
(* What the moves of the clock may do.                                     *)

LEMMA ClockMoves ==
  ASSUME IInv, [Next]_vars, current_cycle' # current_cycle
  PROVE  /\ pc = "advance"
         /\ \E k \in ActiveIds : stage_end[k] = current_cycle'
         /\ \A k \in ActiveIds : stage_end[k] >= current_cycle'
<1> USE DEF IInv
<1>1. Advance
  BY DEF Next, Complete, Issue, EndComplete, EndIssue, WriteError, Terminated, vars
<1>2. \E t \in NextEvents : (\A u \in NextEvents : t <= u) /\ current_cycle' = t
  BY <1>1, NoAbortStep DEF Advance
<1>3. NextEvents = {stage_end[k] : k \in ActiveIds} /\ NextEvents \subseteq Int
  BY NextEventsType
<1> QED BY <1>1, <1>2, <1>3 DEF Advance

-----------------------------------------------------------------------------
(* The extremes the function reports, and what makes them right at every   *)
(* step: a cycle still without a row has a completion ahead of the pass,   *)
(* stages that have ended ended by now, and a run to the end leaves none   *)
(* under way.                                                              *)
ReportInv ==
  /\ pc # "write_error" => active_commands <= max_active_commands
  /\ max_active_commands <= Cardinality(ChipsUsed)
  /\ pc = "complete" =>
       \/ last_event_cycle = current_cycle
       \/ \E k \in EndingNow : k >= i
  /\ pc \in {"issue", "advance", "ok"} => last_event_cycle = current_cycle
  /\ \A k \in Ids : ~Active(k) => stage_end[k] <= current_cycle
  /\ pc = "ok" => ActiveIds = {}

(* It implies what the function reports.                                   *)
LEMMA ReportsRight == ASSUME ReportInv PROVE ReportedExtremes
BY DEF ReportInv, ReportedExtremes, ActiveIds

(* Nothing is reported before the first row.                               *)
LEMMA InitReportInv == Init => ReportInv
<1> SUFFICES ASSUME Init PROVE ReportInv
  OBVIOUS
<1>1. /\ active_commands = 0 /\ max_active_commands = 0
      /\ last_event_cycle = 0 /\ current_cycle = 0
      /\ \A k \in Ids : stage_end[k] = -1
      /\ pc \in {"complete", "unsupported"}
  BY DEF Init, InitTable
<1>2. Cardinality(ChipsUsed) \in Nat
  BY InitTypeOK, FiniteChips, FS_CardinalityType
<1> QED BY <1>1, <1>2 DEF ReportInv

(* Every row keeps the extremes, and every move of the clock leaves a row  *)
(* to be written.                                                          *)
LEMMA StepReportInv ==
  ASSUME IInv, IInv', ReportInv, [Next]_vars
  PROVE  ReportInv'
<1> USE DEF IInv
<1>types. /\ active_commands \in Int /\ max_active_commands \in Int
          /\ Cardinality(ChipsUsed) \in Nat
          /\ current_cycle \in Int /\ stage_end \in [Ids -> Int]
  BY FiniteChips, FS_CardinalityType DEF TypeOK, TableTypeOK
<1>1. ASSUME NEW k \in Ids, Complete(k)
      PROVE  ReportInv'
  <2>1. /\ pc = "complete" /\ UNCHANGED <<pc, commands, current_cycle, stage_end>>
        /\ active_commands' = active_commands - 1 /\ last_event_cycle' = current_cycle
        /\ max_active_commands' = IF active_commands > max_active_commands
                                  THEN active_commands ELSE max_active_commands
    BY <1>1 DEF Complete, EndStage, CountRow
  <2>2. max_active_commands' = max_active_commands
        /\ active_commands' <= max_active_commands'
    BY <1>types, <2>1 DEF ReportInv
  <2>3. stage_end[k] <= current_cycle
    BY <1>1, <1>types DEF Complete, FirstFrom, EndingNow
  <2>4. \A j \in Ids : ~Active(j)' => stage_end'[j] <= current_cycle'
    BY <1>1, <2>1, <2>3, CompleteEffect DEF ReportInv, Active
  <2>5. Ids' = Ids /\ ChipsUsed' = ChipsUsed
    BY <2>1 DEF Ids, ChipsUsed
  <2> QED BY <2>1, <2>2, <2>4, <2>5 DEF ReportInv
<1>2. ASSUME NEW k \in Ids, Issue(k)
      PROVE  ReportInv'
  <2>1. /\ pc = "issue" /\ StartStage(k) /\ UNCHANGED <<pc, commands, current_cycle>>
        /\ active_commands' = active_commands + 1 /\ last_event_cycle' = current_cycle
        /\ max_active_commands' = IF active_commands + 1 > max_active_commands
                                  THEN active_commands + 1 ELSE max_active_commands
    BY <1>2 DEF Issue, CountRow
  <2>2. active_commands' <= Cardinality(ChipsUsed)'
    <3>1. (TypeOK /\ OwnersExact => Cardinality(ActiveIds) <= Cardinality(ChipsUsed))'
      BY ActiveFitChips, PTL
    <3> QED BY <3>1 DEF StateCounts
  <2>3. Ids' = Ids /\ ChipsUsed' = ChipsUsed
    BY <2>1 DEF Ids, ChipsUsed
  <2>4. /\ active_commands' <= max_active_commands'
        /\ max_active_commands' <= Cardinality(ChipsUsed)
    BY <1>types, <2>1, <2>2, <2>3 DEF ReportInv
  <2>5. \A j \in Ids : ~Active(j)' => stage_end'[j] <= current_cycle'
    BY <2>1, StartEffect DEF ReportInv, Active
  <2> QED BY <2>1, <2>3, <2>4, <2>5 DEF ReportInv
<1>3. ASSUME UNCHANGED <<commands, status, stage_end, current_cycle, rows, active_commands>>
      PROVE  /\ pc # "write_error" => (active_commands <= max_active_commands)'
             /\ (max_active_commands <= Cardinality(ChipsUsed))'
             /\ (\A j \in Ids : ~Active(j) => stage_end[j] <= current_cycle)'
             /\ ActiveIds' = ActiveIds
  BY <1>3 DEF ReportInv, rows, ChipsUsed, ActiveIds, Active, Ids
<1>4. CASE EndComplete
  <2>1. /\ pc = "complete" /\ pc' = "issue"
        /\ UNCHANGED <<commands, status, stage_end, current_cycle, rows, active_commands>>
        /\ \A k \in EndingNow : k < i
    BY <1>4 DEF EndComplete, NoneFrom, scheduling, counters
  <2>2. ~\E k \in EndingNow : k >= i
    BY <2>1, IdFacts DEF EndingNow, TypeOK
  <2>3. last_event_cycle' = current_cycle'
    BY <2>1, <2>2 DEF ReportInv, rows
  <2> QED BY <1>3, <2>1, <2>3 DEF ReportInv
<1>5. CASE EndIssue
  <2>1. /\ pc = "issue" /\ pc' \in {"ok", "advance"}
        /\ pc' = "ok" => completed_commands >= Len(commands)
        /\ UNCHANGED <<commands, status, stage_end, current_cycle, rows, active_commands>>
    BY <1>5 DEF EndIssue, scheduling, counters
  <2>2. last_event_cycle' = current_cycle'
    BY <2>1 DEF ReportInv, rows
  <2>3. ASSUME completed_commands >= Len(commands)
        PROVE  ActiveIds = {}
    <3>1. DoneIds \in SUBSET Ids /\ IsFiniteSet(Ids) /\ IsFiniteSet(DoneIds)
          /\ Cardinality(Ids) = Len(commands) /\ completed_commands = Cardinality(DoneIds)
      BY FiniteIds, CountersNamed DEF DoneIds
    <3>2. Cardinality(DoneIds) = Cardinality(Ids)
      <4>1. Cardinality(DoneIds) <= Cardinality(Ids)
        BY <3>1, FS_Subset
      <4>2. Cardinality(DoneIds) \in Nat /\ Cardinality(Ids) \in Nat
        BY <3>1, FS_CardinalityType
      <4> QED BY <2>3, <3>1, <4>1, <4>2
    <3>3. DoneIds = Ids
      BY <3>1, <3>2, FS_Subset
    <3> QED BY <3>3 DEF DoneIds, ActiveIds, Done, Active
  <2> QED BY <1>3, <2>1, <2>2, <2>3 DEF ReportInv
<1>6. CASE Advance
  <2>1. /\ pc = "advance" /\ pc' = "complete" /\ i' = 1
        /\ UNCHANGED <<commands, status, stage_end, rows, active_commands>>
        /\ \E t \in NextEvents : current_cycle' = t
    BY <1>6, NoAbortStep DEF Advance, scheduling, counters
  <2>2. PICK k \in ActiveIds : stage_end[k] = current_cycle'
    BY <2>1, NextEventsType
  <2>3. stage_end[k] > current_cycle
    BY <2>1 DEF EndsAhead
  <2>4. \A j \in Ids : ~Active(j)' => stage_end'[j] <= current_cycle'
    <3>1. ASSUME NEW j \in Ids, ~Active(j)
          PROVE  stage_end[j] <= current_cycle'
      <4>1. k \in Ids /\ stage_end[j] \in Int /\ stage_end[k] \in Int
            /\ stage_end[j] <= current_cycle
        BY <1>types, <3>1 DEF ReportInv, ActiveIds
      <4> QED BY <1>types, <2>2, <2>3, <4>1
    <3> QED BY <2>1, <3>1 DEF Active
  <2>5. \E j \in EndingNow' : j >= i'
    <3>1. k \in EndingNow'
      BY <2>1, <2>2 DEF EndingNow, ActiveIds, Active, Ids
    <3>2. k >= i'
      BY <2>1, IdFacts DEF ActiveIds
    <3> QED BY <3>1, <3>2
  <2>6. /\ active_commands' <= max_active_commands'
        /\ max_active_commands' <= Cardinality(ChipsUsed)' /\ Ids' = Ids
    BY <2>1 DEF ReportInv, rows, ChipsUsed, Ids
  <2> QED BY <2>1, <2>4, <2>5, <2>6 DEF ReportInv
<1>7. CASE WriteError
  <2>1. pc' = "write_error" /\ UNCHANGED <<commands, current_cycle, rows>>
    BY <1>7 DEF WriteError
  <2>2. (max_active_commands <= Cardinality(ChipsUsed))' /\ Ids' = Ids
    BY <2>1 DEF ReportInv, rows, ChipsUsed, Ids
  <2>3. \A j \in Ids : ~Active(j)' => stage_end'[j] <= current_cycle'
    <3>1. CASE UNCHANGED scheduling
      BY <2>1, <3>1 DEF ReportInv, scheduling, Active
    <3>2. ASSUME NEW k \in Ids, StartStage(k)
          PROVE  \A j \in Ids : ~Active(j)' => stage_end'[j] <= current_cycle'
      BY <2>1, <3>2, StartEffect DEF ReportInv, Active
    <3> QED BY <1>7, <3>1, <3>2 DEF WriteError
  <2> QED BY <2>1, <2>2, <2>3 DEF ReportInv
<1>8. CASE UNCHANGED vars
  BY <1>3, <1>8 DEF vars, scheduling, counters, rows, ReportInv, EndingNow, Active, Ids
<1> QED BY <1>1, <1>2, <1>4, <1>5, <1>6, <1>7, <1>8 DEF Next, Terminated

-----------------------------------------------------------------------------
(* The invariant holds in every reachable state.                           *)
THEOREM Invariance == Spec => []IInv
<1>1. Init => IInv
  BY InitIInv
<1>2. IInv /\ [Next]_vars => IInv'
  BY StepIInv
<1> QED BY <1>1, <1>2, PTL DEF Spec

(* Every variable keeps its type in every state the backend reaches.       *)
THEOREM TypeCorrect == Spec => []TypeOK
<1>1. IInv => TypeOK
  BY DEF IInv
<1> QED BY <1>1, Invariance, PTL

(* Stages under way hold exactly the channels, chips, planes and compute   *)
(* cores they need, and no resource is held by anything else.              *)
THEOREM ResourcesExact == Spec => []OwnersExact
<1>1. IInv => OwnersExact
  BY DEF IInv
<1> QED BY <1>1, Invariance, PTL

(* Each chip serves its commands in stream order, one at a time, although  *)
(* it is released between the stages of a command.                         *)
THEOREM ChipsInOrder == Spec => []ChipInOrder
<1>1. IInv => ChipInOrder
  BY DEF IInv
<1> QED BY <1>1, Invariance, PTL

(* The loop never takes its error exits: there is always a next event, and *)
(* the guard outlasts every stream that fits the command array.            *)
THEOREM NeverAborts == Spec => []NoAbort
<1>1. IInv => NoAbort
  BY DEF IInv
<1> QED BY <1>1, Invariance, PTL

(* The reported counters are the sizes of the sets they speak of, and the  *)
(* two extremes among them are those of the whole run.                     *)
THEOREM CountersCorrect == Spec => []CountersExact
<1>1. Init => ReportInv
  BY InitReportInv
<1>2. IInv /\ IInv' /\ ReportInv /\ [Next]_vars => ReportInv'
  BY StepReportInv
<1>3. IInv /\ ReportInv => CountersExact
  BY ReportsRight DEF CountersExact, IInv
<1> QED BY <1>1, <1>2, <1>3, Invariance, PTL DEF Spec

(* The clock moves to the end of a stage under way and past none.          *)
THEOREM ClockCorrect == Spec => ClockStopsAtEnds
<1>1. IInv /\ [Next]_vars =>
        [current_cycle' # current_cycle =>
           /\ \E k \in ActiveIds : stage_end[k] = current_cycle'
           /\ \A k \in ActiveIds : stage_end[k] >= current_cycle']_vars
  BY ClockMoves
<1> QED BY <1>1, Invariance, PTL DEF Spec, ClockStopsAtEnds

(* When the clock moves, a resource in use blocks every waiting stage.     *)
THEOREM NoIdling == Spec => WorkConserving
<1>1. IInv /\ [Next]_vars =>
        [current_cycle' # current_cycle =>
           \A k \in Ids : Waiting(k) => \E r \in Need(k) : owner[r] # None]_vars
  BY ClockMoves DEF IInv, PassBlocks, Blocked
<1> QED BY <1>1, Invariance, PTL DEF Spec, WorkConserving

-----------------------------------------------------------------------------
(* The event backend implements the chip service.                          *)

(* The service speaks of the same stages and resources: its copies of the  *)
(* shared definitions are equal to the originals.                          *)
LEMMA ServiceTerms ==
  /\ \A c : Service!StageCount(c) = StageCount(c)
  /\ \A c, s : Service!Needs(c, s) = Needs(c, s)
  /\ \A c, d : Service!SameChip(c, d) <=> SameChip(c, d)
  /\ \A p : Service!PlatformSupported(p) <=> PlatformSupported(p)
  /\ \A p : Service!BuildCommands(p) = BuildCommands(p)
<1>1. \A o : Service!StagesOf(o) = StagesOf(o)
  BY DEF Service!StagesOf, StagesOf
<1>2. \A c : Service!StageCount(c) = StageCount(c)
  BY <1>1 DEF Service!StageCount, StageCount
<1>3. \A c, s : Service!Needs(c, s) = Needs(c, s)
  <2>1. \A c, s : Service!StageOf(c, s) = StageOf(c, s)
    BY <1>1 DEF Service!StageOf, StageOf
  <2>2. \A g : Service!IsTransfer(g) <=> IsTransfer(g)
    BY DEF Service!IsTransfer, IsTransfer
  <2>3. \A c : /\ Service!ChannelOf(c) = ChannelOf(c) /\ Service!ChipOf(c) = ChipOf(c)
               /\ Service!PlaneOf(c) = PlaneOf(c) /\ Service!ComputeOf(c) = ComputeOf(c)
    BY DEF Service!ChannelOf, ChannelOf, Service!ChipOf, ChipOf,
           Service!PlaneOf, PlaneOf, Service!ComputeOf, ComputeOf
  <2> QED BY <2>1, <2>2, <2>3 DEF Service!Needs, Needs
<1>4. \A c, d : Service!SameChip(c, d) <=> SameChip(c, d)
  BY DEF Service!SameChip, SameChip
<1>5. \A p : Service!PlatformSupported(p) <=> PlatformSupported(p)
  BY DEF Service!PlatformSupported, PlatformSupported
<1>6. \A p : Service!BuildCommands(p) = BuildCommands(p)
  <2>1. \A p, n : Service!CommandAt(p, n) = CommandAt(p, n)
    BY DEF Service!CommandAt, CommandAt
  <2>2. \A p : Service!CommandCount(p) = CommandCount(p)
    BY DEF Service!CommandCount, CommandCount
  <2> QED BY <2>1, <2>2 DEF Service!BuildCommands, BuildCommands
<1> QED BY <1>2, <1>3, <1>4, <1>5, <1>6

LEMMA ServiceInit == Init => Service!Init
<1> SUFFICES ASSUME Init PROVE Service!Init
  OBVIOUS
<1>1. commands \in {BuildCommands(p) : p \in {q \in Platforms : PlatformSupported(q)}}
                     \cup {<< >>}
  BY DEF Init
<1>2. stage = [k \in DOMAIN commands |-> 0]
  BY DEF Init, InitTable, Ids
<1>3. ActiveIds = {}
  BY DEF Init, InitTable, ActiveIds, Active
<1> QED BY <1>1, <1>2, <1>3, ServiceTerms DEF Service!Init

LEMMA ServiceStep ==
  ASSUME IInv, [Next]_vars
  PROVE  [Service!Next]_(Service!service)
<1> USE DEF IInv
<1>1. ASSUME NEW k \in Ids, Complete(k)
      PROVE  Service!Finish(k)
  <2>1. stage' = [stage EXCEPT ![k] = @ + 1]
    BY <1>1 DEF Complete, EndStage
  <2> QED BY <1>1, <2>1, CompleteEffect DEF Service!Finish
<1>2. ASSUME NEW k \in Ids, pc = "issue", StartStage(k), UNCHANGED commands
      PROVE  Service!Start(k)
  <2>1. k \notin ActiveIds /\ ActiveIds' = ActiveIds \cup {k} /\ stage' = stage
    BY <1>2, StartEffect
  <2>2. ~Service!Ended(k)
    <3>1. stage[k] \in 0..(StageCount(commands[k]) - 1) /\ StageCount(commands[k]) \in {2, 4}
      BY <1>2, StartEffect, StageInRange DEF Done
    <3> QED BY <3>1, ServiceTerms DEF Service!Ended
  <2>3. \A j \in ActiveIds :
          Needs(commands[j], stage[j]) \cap Needs(commands[k], stage[k]) = {}
    <3>1. ASSUME NEW j \in ActiveIds, NEW r \in Need(j), r \in Need(k)
          PROVE  FALSE
      <4>1. owner[r] = j /\ owner[r] = None
        BY <1>2, <3>1, StartEffect DEF OwnersExact
      <4> QED BY <4>1, IdFacts DEF ActiveIds
    <3> QED BY <3>1 DEF Need
  <2>4. \A j \in Ids : j < k /\ SameChip(commands[j], commands[k]) => Service!Ended(j)
    BY <1>2, StartInOrder, ServiceTerms DEF Service!Ended, StageAgrees
  <2> QED BY <1>2, <2>1, <2>2, <2>3, <2>4, ServiceTerms DEF Service!Start, Ids
<1>3. CASE UNCHANGED <<commands, scheduling>>
  BY <1>3 DEF scheduling, Service!service, ActiveIds, Active, Ids
<1> QED BY <1>1, <1>2, <1>3, StepKinds DEF Service!Next, Ids

(* Every behaviour of the event backend, its commands under way taken as   *)
(* the service's running commands, is one of the chip service.             *)
THEOREM Implements == Spec => ImplementsService
<1>1. Init => Service!Init
  BY ServiceInit
<1>2. IInv /\ [Next]_vars => [Service!Next]_(Service!service)
  BY ServiceStep
<1> QED BY <1>1, <1>2, Invariance, PTL DEF Spec, ImplementsService, Service!Spec

=============================================================================
