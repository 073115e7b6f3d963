----------------------------- MODULE EngramOverlay -----------------------------
(***************************************************************************)
(* The Engram rows of the component model (ifc_component_systemc.cpp): a   *)
(* file of lookups is read before the run, and those of the platform are   *)
(* appended to the trace after the last stage, in the order of their       *)
(* start.  They do not take part in the run.                               *)
(*                                                                         *)
(* A file is a sequence of lines, the header first.  Times are cycles.     *)
(***************************************************************************)
EXTENDS Integers, Sequences, SequencesExt

CONSTANTS
  Platform,           \* the name of the platform that is run
  NotGiven, Missing   \* no --engram-events; a file that cannot be opened

(* csv_string: a field that the line does not reach is empty.              *)
PlatformOf(header, l) == IF header.platform <= l.fields THEN l.platform ELSE ""

(* cycle_from_ms: times before the run count as its start.                 *)
Cycle(x) == IF x <= 0 THEN 0 ELSE x

Event(l) ==
  [lookup_start |-> Cycle(l.start), lookup_ready |-> Cycle(l.ready),
   target_start |-> Cycle(l.target), visible_wait |-> Cycle(l.visible), layer |-> l.layer]

(* The order of std::sort, which does not keep equal events in their order.*)
Before(d, e) ==
  \/ d.lookup_start < e.lookup_start
  \/ /\ d.lookup_start = e.lookup_start
     /\ \/ d.target_start < e.target_start
        \/ d.target_start = e.target_start /\ d.layer < e.layer

(* The rows of the file that name the platform, by line, and among them    *)
(* those that have all columns.                                            *)
PlatformRows(f) ==
  {n \in 2..Len(f) : PlatformOf(f[1], f[n]) = Platform}

(* Fault: rows that end early are taken, with what they have.              *)
WholeRowsAll(f) == PlatformRows(f)

WholeRows(f) == {n \in PlatformRows(f) : f[n].fields >= f[1].fields}

(* load_engram_events.  Without a file, or with one that is empty, there   *)
(* are no events; a file that is missing, or misses a column, is an error. *)
LoadFails(f) == f = Missing \/ (f # NotGiven /\ f # << >> /\ ~f[1].required)

NoEvents(f) == f = NotGiven \/ f = << >>

Loaded(f) ==
  IF NoEvents(f) THEN [source_rows |-> 0, platform_rows |-> 0, malformed |-> 0, max_visible |-> 0]
  ELSE [source_rows   |-> Len(f) - 1,
        platform_rows |-> Cardinality(PlatformRows(f)),
        malformed     |-> Cardinality(PlatformRows(f) \ WholeRows(f)),
        max_visible   |-> Max({0} \cup {Event(f[n]).visible_wait : n \in WholeRows(f)})]

(* The orders in which the lines may be left by the sort.                  *)
Sorted(f) ==
  IF NoEvents(f) THEN {<< >>}
  ELSE {s \in SetToSeqs(WholeRows(f)) :
          \A i, j \in DOMAIN s : i < j => ~Before(Event(f[s[j]]), Event(f[s[i]]))}

(* write_engram_component_event: the row for line n.                       *)
TraceRow(f, n, id) ==
  LET e == Event(f[n])
      d == e.lookup_ready - e.lookup_start
  IN  [event_id |-> id, event_cycle |-> e.lookup_start, source |-> n,
       duration |-> IF d < 0 THEN 0 ELSE d]

(* write_engram_compare: the metrics that are not PASS.                    *)
EngramFailures(loaded, emitted) ==
  {m \in {"platform_filtered_events", "engram_malformed_rows", "max_visible_wait_cycle"} :
     CASE m = "platform_filtered_events" -> loaded.platform_rows # emitted
       [] m = "engram_malformed_rows" -> loaded.malformed # 0
       [] m = "max_visible_wait_cycle" -> loaded.max_visible # 0}
=============================================================================
