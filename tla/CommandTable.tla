----------------------------- MODULE CommandTable -----------------------------
(***************************************************************************)
(* The scheduler state every backend keeps: the command array with the     *)
(* status of each command, and the tables of resources with their owners.  *)
(* The loops of the backends differ; what a stage reserves when it starts  *)
(* and releases when it ends does not.                                     *)
(***************************************************************************)
EXTENDS IfcStages, FiniteSets

VARIABLES
  commands,           \* the command array, as the builder left it
  status,             \* per command: WAITING, ACTIVE or DONE
  stage,              \* per command: stage_index
  stage_end,          \* per command: stage_end_cycle
  owner               \* per resource: the command that holds it, or None

scheduling == <<status, stage, stage_end, owner>>

None == 0             \* -1 in the code, whose command ids start at 0

Ids == DOMAIN commands

Waiting(k) == status[k] = "WAITING"
Active(k)  == status[k] = "ACTIVE"
Done(k)    == status[k] = "DONE"

ActiveIds == {k \in Ids : Active(k)}

Started(k) == stage[k] > 0 \/ Active(k)

Need(k) == Needs(commands[k], stage[k])

InitTable ==
  /\ status = [k \in Ids |-> "WAITING"]
  /\ stage = [k \in Ids |-> 0]
  /\ stage_end = [k \in Ids |-> -1]
  /\ owner = [r \in AllResources |-> None]

(* A loop visits the indices in order: k is the first of S from i on.      *)
FirstFrom(i, S, k) == k \in S /\ k >= i /\ \A j \in S : j >= i => k <= j

NoneFrom(i, S) == \A j \in S : j < i

-----------------------------------------------------------------------------

ResourcesFree(k) == \A r \in Need(k) : owner[r] = None

Issuable(cycle) ==
  {k \in Ids : /\ Waiting(k)
               /\ commands[k].arrival_cycle <= cycle
               /\ ResourcesFree(k)}

Reserve(k) ==
  [r \in AllResources |-> IF r \in Need(k) THEN k ELSE owner[r]]

(* Fault: the release does not look at the owners.                         *)
ReleaseUnchecked(k) ==
  LET held == {ChannelOf(commands[k]), ChipOf(commands[k]),
               PlaneOf(commands[k]), ComputeOf(commands[k])}
  IN  [r \in AllResources |-> IF r \in held THEN None ELSE owner[r]]

(* A release frees what the command still owns of its four resources.      *)
Release(k) ==
  LET held == {ChannelOf(commands[k]), ChipOf(commands[k]),
               PlaneOf(commands[k]), ComputeOf(commands[k])}
  IN  [r \in AllResources |->
         IF r \in held /\ owner[r] = k THEN None ELSE owner[r]]

BeginStage(k, end) ==
  /\ stage_end' = [stage_end EXCEPT ![k] = end]
  /\ status' = [status EXCEPT ![k] = "ACTIVE"]
  /\ owner' = Reserve(k)
  /\ UNCHANGED stage

LastStage(k) == stage[k] + 1 >= StageCount(commands[k])

EndStage(k) ==
  /\ owner' = Release(k)
  /\ stage' = [stage EXCEPT ![k] = @ + 1]
  /\ status' = [status EXCEPT ![k] = IF LastStage(k) THEN "DONE" ELSE "WAITING"]
  /\ UNCHANGED stage_end

-----------------------------------------------------------------------------

TableTypeOK ==
  /\ commands \in Seq(Command)
  /\ status \in [Ids -> {"WAITING", "ACTIVE", "DONE"}]
  /\ stage \in [Ids -> 0..4]
  /\ stage_end \in [Ids -> Int]
  /\ owner \in [AllResources -> Ids \cup {None}]

(* The resource tables are exact: an active command owns everything its    *)
(* stage needs, and whatever is owned is owned by an active command that   *)
(* needs it.  So no two stages under way share a channel, chip, plane or   *)
(* compute core, and no release leaves a resource behind or frees one that *)
(* belongs to another command (event_reserve_resources,                    *)
(* event_release_resources).                                               *)
OwnersExact ==
  /\ \A k \in ActiveIds : \A r \in Need(k) : owner[r] = k
  /\ \A r \in AllResources :
       owner[r] # None => owner[r] \in ActiveIds /\ r \in Need(owner[r])

(* A chip serves its commands in stream order, each from first to last     *)
(* stage: once a command has started, all earlier ones of its chip are     *)
(* done.  The array page a READ_COMPUTE has read is therefore never        *)
(* replaced before its IFC_COMPUTE has used it, although the loop releases *)
(* chip and plane between the two stages and rescans all commands.         *)
ChipInOrder ==
  \A j, k \in Ids :
    j < k /\ SameChip(commands[j], commands[k]) /\ Started(k) => Done(j)
=============================================================================
