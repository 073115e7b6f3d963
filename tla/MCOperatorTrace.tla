---------------------------- MODULE MCOperatorTrace ----------------------------
(***************************************************************************)
(* The operator trace of small models.                                     *)
(***************************************************************************)
EXTENDS OperatorTrace

Model(layers, weight, qkv, out, cache, ops) ==
  [layers |-> layers, weight |-> weight, qkv |-> qkv, out |-> out, cache |-> cache, ops |-> ops]

(* An MLP well above, exactly at and below 35 percent of the layer,        *)
(* projections larger than the layer, and a model without a context.       *)
SmallModels ==
  {Model(1, 100, 20, 10, 256, 7), Model(2, 100, 40, 25, 130, 1), Model(3, 100, 50, 40, 64, 5),
   Model(2, 10, 20, 9, 1, 3), Model(2, 100, 20, 10, 0, 0)}

(* Engines of different and of equal speed; one that takes no time.        *)
SmallRates ==
  {[e \in Engines |-> 1], [IFC |-> 5, DRAM |-> 2, NPU |-> 1], [IFC |-> 1, DRAM |-> 0, NPU |-> 3]}
=============================================================================
