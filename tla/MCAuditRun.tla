------------------------------ MODULE MCAuditRun ------------------------------
(***************************************************************************)
(* The audit by two targets, of a simulator that writes three files.       *)
(***************************************************************************)
EXTENDS AuditRun

SmallTargets == <<"systemc-cycle", "systemc-component">>

SmallOutputs == <<"figure9_reproduction", "event_stats", "reproduction_checks">>

SmallKind ==
  [f \in ToSet(SmallOutputs) |->
     CASE f = "figure9_reproduction" -> "unchecked"
       [] f = "event_stats" -> "small"
       [] f = "reproduction_checks" -> "checked"]

SmallDifferences == {{}, {"last_event_cycle", "last_event_ns"}}

Head12(required) == [fields |-> 12, platform |-> 3, required |-> required]

Row(fields, platform, start, ready, target, visible, layer) ==
  [fields |-> fields, platform |-> platform, start |-> start, ready |-> ready,
   target |-> target, visible |-> visible, layer |-> layer]

(* No file, files that cannot be read, and files with equal events, early  *)
(* and late ones, rows of another platform, too short or too long.         *)
SmallEventFiles ==
  {NotGiven, Missing, << >>, <<Head12(FALSE)>>, <<Head12(TRUE)>>,
   <<Head12(TRUE), Row(12, "p", 5, 7, 9, 0, 1), Row(12, "q", 1, 2, 3, 0, 0),
     Row(12, "p", 2, 1, 3, 0, 2), Row(12, "p", 5, 8, 9, 0, 1)>>,
   <<Head12(TRUE), Row(2, "p", 0, 0, 0, 0, 0), Row(12, "p", -4, 6, 3, 3, 1),
     Row(7, "p", 4, 6, 8, 0, 0), Row(13, "p", 0, 0, 0, 0, 0)>>}
=============================================================================
