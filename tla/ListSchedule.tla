----------------------------- MODULE ListSchedule -----------------------------
(***************************************************************************)
(* What the backends that keep ready times promise, without ready times:   *)
(* a list of stages, each placed once and for all.  Commands are placed    *)
(* one after the other, all stages of one before the next; a stage starts  *)
(* when every earlier stage of the list with which it shares a resource    *)
(* has ended, or later by a delay the backend is allowed.                  *)
(***************************************************************************)
EXTENDS IfcStages

CONSTANTS
  Commands,                 \* the commands that may be placed
  DelayAllowed(_)           \* delays a stage may have beyond its resources

VARIABLE rows               \* the stages placed: command, stage, start, end

Row == [command : Commands, stage : 0..3, start : Nat, end : Nat]

Claims(row) == Needs(row.command, row.stage)

Conflict(row, other) == Claims(row) \cap Claims(other) # {}

LastStageOf(row) == row.stage = StageCount(row.command) - 1

(* The ends of the stages in list that a stage must wait for.              *)
WaitsFor(list, row) == {list[j].end : j \in {j \in DOMAIN list : Conflict(list[j], row)}}

Init == rows = << >>

(* A stage of the command under way, or the first of a new command.        *)
InTurn(list, row) ==
  LET last == list[Len(list)]
  IN  IF list # << >> /\ ~LastStageOf(last)
      THEN row.command = last.command /\ row.stage = last.stage + 1
      ELSE row.stage = 0

OnTime(list, row) ==
  \E earliest \in {0} \cup WaitsFor(list, row) :
    /\ \A end \in WaitsFor(list, row) : end <= earliest
    /\ row.start >= earliest
    /\ DelayAllowed(row.start - earliest)

Next ==
  /\ Len(rows') = Len(rows) + 1
  /\ LET row == rows'[Len(rows')]
     IN  /\ rows' = Append(rows, row)
         /\ row \in Row /\ row.end > row.start
         /\ InTurn(rows, row) /\ OnTime(rows, row)

Spec == Init /\ [][Next]_rows

-----------------------------------------------------------------------------
(* Properties.                                                             *)

(* Stages that share a resource never overlap in time: the later one of    *)
(* the list starts when the earlier one has ended, however many stages lie *)
(* between them and whatever the delays.                                   *)
Exclusive ==
  \A i, j \in DOMAIN rows :
    i < j /\ Conflict(rows[i], rows[j]) => rows[i].end <= rows[j].start
=============================================================================
