------------------------------- MODULE MCFullRow -------------------------------
(***************************************************************************)
(* The full-row scheduler on small rows.                                   *)
(***************************************************************************)
EXTENDS FullRow

SmallPlatforms ==
  {[channels |-> ch, chips_per_channel |-> cp, dies_per_chip |-> d, planes_per_die |-> p] :
     <<ch, cp, d, p>> \in {<<1, 1, 1, 1>>, <<2, 2, 1, 1>>, <<3, 1, 1, 2>>, <<1, 2, 2, 1>>,
                           <<4, 1, 1, 1>>}}

(* Rows without computation, without slices, empty, and proportions that   *)
(* do not divide.                                                          *)
SmallDemands ==
  {[read_compute |-> n, read_slice |-> m] :
     <<n, m>> \in {<<0, 0>>, <<0, 3>>, <<4, 0>>, <<3, 2>>, <<2, 5>>, <<6, 3>>}}

Durations(ca, vector, array, compute, data) ==
  [s \in StageNames |->
     CASE s = "CA_TRANSFER" -> ca [] s = "VECTOR_TRANSFER" -> vector
       [] s = "ARRAY_READ" -> array [] s = "IFC_COMPUTE" -> compute
       [] s = "DATA_TRANSFER" -> data]

(* Stages of one cycle, so that slots are short, and of different lengths. *)
SmallTimings == {Durations(1, 1, 1, 1, 1), Durations(3, 5, 8, 3, 3)}

(* Cycles are tabulated up to this bound, beyond the end of every row.     *)
MaxCycle == 200

(* No collision, all cycles in one bucket, and two clusters that run into  *)
(* each other and around the end of the table.                             *)
SmallHashes ==
  {[c \in 0..MaxCycle |-> c], [c \in 0..MaxCycle |-> 0],
   [c \in 0..MaxCycle |-> 62 + (c % 2)]}
=============================================================================
