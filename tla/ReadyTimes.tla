------------------------------ MODULE ReadyTimes ------------------------------
(***************************************************************************)
(* The state of the two backends that place stages by ready times: a time  *)
(* per channel, chip, plane and compute unit from which it is free.  The   *)
(* four tables are one here, indexed by the resource names of IfcStages.   *)
(***************************************************************************)
EXTENDS IfcStages

VARIABLES
  ready,              \* per resource: the cycle from which it is free
  rows                \* the stages placed so far, in the order of the code

InitReady ==
  /\ ready = [r \in AllResources |-> 0]
  /\ rows = << >>

(* Fault: a computation sets the ready time of the compute unit only.      *)
OccupyComputeUnit(c, s, start, end) ==
  /\ ready' = [r \in AllResources |->
                 IF r \in Needs(c, s) /\ (StageOf(c, s) = "IFC_COMPUTE" => r = ComputeOf(c))
                 THEN end ELSE ready[r]]
  /\ rows' = Append(rows, [command |-> c, stage |-> s, start |-> start, end |-> end])

(* A stage sets the ready time of everything it uses to its end.           *)
Occupy(c, s, start, end) ==
  /\ ready' = [r \in AllResources |-> IF r \in Needs(c, s) THEN end ELSE ready[r]]
  /\ rows' = Append(rows, [command |-> c, stage |-> s, start |-> start, end |-> end])

-----------------------------------------------------------------------------
(* Properties.                                                             *)

(* The types, for rows of the commands in C.                               *)
ReadyTypeOK(C) ==
  /\ ready \in [AllResources -> Nat]
  /\ rows \in Seq([command : C, stage : 0..3, start : Nat, end : Nat \ {0}])

(* The ready time of a resource is the end of the last stage that used it  *)
(* (each stage sets some of the tables by hand), and no stage before that  *)
(* one ends later.                                                         *)
ReadyExact ==
  \A r \in AllResources :
    ready[r] = Latest({0} \cup
      {rows[j].end : j \in {j \in DOMAIN rows : r \in Needs(rows[j].command, rows[j].stage)}})

(* A READ_SLICE transfers from its plane's register without looking at the *)
(* plane's ready time; still no array read and no computation of that      *)
(* plane overlaps the command, because they hold the chip as well.         *)
SlicesFindPlaneIdle ==
  \A i, j \in DOMAIN rows :
    /\ rows[i].command.opcode = "READ_SLICE"
    /\ PlaneOf(rows[i].command) \in Needs(rows[j].command, rows[j].stage)
    => rows[i].end <= rows[j].start \/ rows[j].end <= rows[i].start
=============================================================================
