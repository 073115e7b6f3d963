--------------------------------- MODULE Totals ---------------------------------
(***************************************************************************)
(* Sums, as the loops of simulator.c and analysis.c add them up: over a    *)
(* table from its first row on.                                            *)
(***************************************************************************)
EXTENDS Integers, Sequences

Total(t) ==
  LET sum[n \in 0..Len(t)] == IF n = 0 THEN 0 ELSE sum[n - 1] + t[n]
  IN  sum[Len(t)]
=============================================================================
