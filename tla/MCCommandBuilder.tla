--------------------------- MODULE MCCommandBuilder ---------------------------
(***************************************************************************)
(* The command builder on every small platform; the largest overflow the   *)
(* array.                                                                  *)
(***************************************************************************)
EXTENDS CommandBuilder

SmallPlatforms == [channels : 1..3, chips_per_channel : 1..3,
                   dies_per_chip : 1..2, planes_per_die : 1..3]
=============================================================================
