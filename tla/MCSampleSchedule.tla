--------------------------- MODULE MCSampleSchedule ---------------------------
(***************************************************************************)
(* The sample schedule on small platforms.                                 *)
(***************************************************************************)
EXTENDS SampleSchedule

(* Every platform of the grid, and one the array bounds refuse.            *)
GridPlatforms ==
  [channels : 1..2, chips_per_channel : 1..2, dies_per_chip : 1..2, planes_per_die : 1..2]
    \cup {[channels |-> 1, chips_per_channel |-> 1, dies_per_chip |-> 1,
           planes_per_die |-> IFC_SSDSIM_MAX_PLANES_PER_DIE + 1]}

(* Slices that end before the tile's array read, and slices that end after *)
(* it, so that either decides when the next tile is issued.                *)
GridTimings ==
  {[read_compute |-> 1, read_slice |-> 1, array |-> 30],
   [read_compute |-> 3, read_slice |-> 9, array |-> 2]}
=============================================================================
