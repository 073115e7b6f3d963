--------------------------- MODULE MCComponentModel ---------------------------
(***************************************************************************)
(* The SystemC component model on small instances.                         *)
(***************************************************************************)
EXTENDS ComponentModel

Durations(ca, vector, array, compute, data) ==
  [CA_TRANSFER |-> ca, VECTOR_TRANSFER |-> vector, ARRAY_READ |-> array,
   IFC_COMPUTE |-> compute, DATA_TRANSFER |-> data]

Dims(channels, chips) ==
  [channels |-> channels, chips_per_channel |-> chips,
   dies_per_chip |-> 1, planes_per_die |-> 2]

(* One channel or two, one chip or two, and one platform too wide.         *)
SmallPlatforms == {Dims(c, x) : c \in 1..2, x \in 1..2} \cup {Dims(3, 1)}

SmallTimings == {Durations(1, 1, 1, 1, 1), Durations(3, 2, 6, 4, 5)}

(* Widths and depths below and at the number of chips, a module clock      *)
(* shorter and one longer than a cycle.                                    *)
SmallConfigs == [issue_width : {1, 2, 4}, queue_depth : {1, 4}, clock_ticks : {1, 5}]

(* The default platform, its cycle counts and the default queue depth,     *)
(* with --issue-width 1.                                                   *)
DefaultPlatforms ==
  {[channels |-> 8, chips_per_channel |-> 2, dies_per_chip |-> 2, planes_per_die |-> 2]}

DefaultTimings == {Durations(7, 256, 30000, 1024, 4096)}

NarrowConfigs == {[issue_width |-> 1, queue_depth |-> 8, clock_ticks |-> 5]}
=============================================================================
