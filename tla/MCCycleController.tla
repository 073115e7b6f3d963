-------------------------- MODULE MCCycleController --------------------------
(***************************************************************************)
(* The cycle-stepped controller on small platforms.                        *)
(***************************************************************************)
EXTENDS CycleController

(* Every platform of the grid, and one the array bounds refuse.            *)
GridPlatforms ==
  [channels : 1..2, chips_per_channel : 1..2, dies_per_chip : 1..2, planes_per_die : 1..2]
    \cup {[channels |-> IFC_SSDSIM_MAX_CHANNELS + 1, chips_per_channel |-> 1,
           dies_per_chip |-> 1, planes_per_die |-> 1]}

(* One cycle each; an array read much longer than the transfers, so that   *)
(* commands queue at a plane; transfers longer than the array read.        *)
GridTimings ==
  {[read_compute |-> 1, read_slice |-> 1, array |-> 1],
   [read_compute |-> 1, read_slice |-> 2, array |-> 5],
   [read_compute |-> 3, read_slice |-> 4, array |-> 2]}
=============================================================================
