----------------------------- MODULE MCEventLoop -----------------------------
(***************************************************************************)
(* The event backend on small instances, and the properties TLC checks.    *)
(***************************************************************************)
EXTENDS EventLoop

(* Every platform with up to MaxDim of each dimension, and one the array   *)
(* bounds refuse.                                                          *)
MCPlatforms(maxDim, channels) ==
  [channels : 1..channels, chips_per_channel : 1..maxDim,
   dies_per_chip : 1..maxDim, planes_per_die : 1..maxDim]
    \cup {[channels |-> IFC_SSDSIM_MAX_CHANNELS + 1, chips_per_channel |-> 1,
           dies_per_chip |-> 1, planes_per_die |-> 1]}

Durations(ca, vector, array, compute, data) ==
  [s \in StageNames |->
     CASE s = "CA_TRANSFER" -> ca [] s = "VECTOR_TRANSFER" -> vector
       [] s = "ARRAY_READ" -> array [] s = "IFC_COMPUTE" -> compute
       [] s = "DATA_TRANSFER" -> data]

(* Two of every dimension, and durations that make stage ends coincide or  *)
(* interleave: equal ones, transfers longer than the array read, and the   *)
(* cycle counts of the default platform.                                   *)
GridPlatforms == MCPlatforms(2, 2)

GridTimings ==
  {Durations(1, 1, 1, 1, 1), Durations(1, 2, 3, 2, 4),
   Durations(7, 256, 30000, 1024, 4096)}

=============================================================================
