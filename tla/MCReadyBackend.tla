---------------------------- MODULE MCReadyBackend ----------------------------
(***************************************************************************)
(* The ready-time backend on small platforms.                              *)
(***************************************************************************)
EXTENDS ReadyBackend

(* Every platform of the grid, and one the array bounds refuse.            *)
GridPlatforms ==
  [channels : 1..2, chips_per_channel : 1..2, dies_per_chip : 1..2, planes_per_die : 1..2]
    \cup {[channels |-> 0, chips_per_channel |-> 1, dies_per_chip |-> 1,
           planes_per_die |-> 1]}

Durations(ca, vector, array, compute, data) ==
  [s \in StageNames |->
     CASE s = "CA_TRANSFER" -> ca [] s = "VECTOR_TRANSFER" -> vector
       [] s = "ARRAY_READ" -> array [] s = "IFC_COMPUTE" -> compute
       [] s = "DATA_TRANSFER" -> data]

(* A long array read, so that chips overlap; long transfers, so that the   *)
(* channel is what the stages wait for.                                    *)
GridTimings == {Durations(1, 2, 9, 3, 4), Durations(2, 5, 1, 1, 7)}
=============================================================================
