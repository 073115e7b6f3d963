----------------------------- MODULE OperatorTrace -----------------------------
(***************************************************************************)
(* The decode-operator trace of simulator.c.  A layer of a model is 13     *)
(* operators on three engines, scheduled one after the other under ready   *)
(* times.  The schedule is made twice, by code written twice: first        *)
(* ifc_operator_trace_stats collects a row's statistics and then replaces  *)
(* them by the totals they should add up to; later                         *)
(* write_operator_trace_for_row makes the schedule again from these        *)
(* statistics and writes it.                                               *)
(*                                                                         *)
(* The code's doubles are whole numbers here: work is counted in           *)
(* three-hundredths of a byte or an operation, since the shares of the     *)
(* operators are percentages and thirds, and a rate is the time of one.    *)
(***************************************************************************)
EXTENDS Integers, Sequences, FiniteSets, Totals

CONSTANTS
  Models,             \* layers and, per layer, what an operator's work derives from
  Rates,              \* time per unit of work of each engine
  TraceMayFail        \* whether a row of the trace may fail to be written

Engines == {"IFC", "DRAM", "NPU"}

ModelProfile ==     \* weight, qkv, out: bytes; cache: bytes; ops: operations
  [layers : Nat \ {0}, weight : Nat, qkv : Nat, out : Nat, cache : Nat, ops : Nat]

ASSUME OperatorTraceAssumption ==
  /\ Models \subseteq ModelProfile
  /\ Rates \subseteq [Engines -> Nat]
  /\ TraceMayFail \in BOOLEAN

VARIABLES
  model, rate,
  pass,               \* "stats", "trace", or how the simulator returned
  layer, op,          \* the next operator
  dependency_ready_ms, engine_ready_ms,
  stats,              \* IfcOperatorTraceStats
  trace               \* the trace

tvars == <<model, rate, pass, layer, op, dependency_ready_ms, engine_ready_ms, stats, trace>>

Unit == 300
Max2(a, b) == IF a > b THEN a ELSE b
CeilDiv(a, b) == (a + b - 1) \div b

-----------------------------------------------------------------------------
(* The work of the operators.                                              *)

(* Fault: the MLP gets what the projections leave, however little.         *)
WeightSplitClamped ==
  LET mlp == Max2(0, model.weight - model.qkv - model.out)
  IN  [qkv |-> Unit * model.qkv, out |-> Unit * model.out,
       gate_up |-> 200 * mlp, down |-> 100 * mlp]

(* ifc_layer_weight_split: the MLP has what the projections leave of a     *)
(* layer, or fixed shares of it if that is less than 35 percent.           *)
WeightSplit ==
  LET mlp == model.weight - model.qkv - model.out
  IN  IF 100 * mlp < 35 * model.weight
      THEN [qkv |-> 75 * model.weight, out |-> 45 * model.weight,
            gate_up |-> 120 * model.weight, down |-> 60 * model.weight]
      ELSE [qkv |-> Unit * model.qkv, out |-> Unit * model.out,
            gate_up |-> 200 * mlp, down |-> 100 * mlp]

Ifc(work)      == [engine |-> "IFC", work |-> work]
Dram(percent)  == [engine |-> "DRAM", work |-> 3 * percent * model.cache]
Npu(percent)   == [engine |-> "NPU", work |-> 3 * percent * model.ops]

(* The 13 calls of trace_add_stage.                                        *)
StatsOperators ==
  <<Npu(2), Ifc(WeightSplit.qkv), Dram(50), Npu(43), Npu(5), Dram(50), Npu(43),
    Ifc(WeightSplit.out), Npu(1), Ifc(WeightSplit.gate_up), Npu(4),
    Ifc(WeightSplit.down), Npu(2)>>

(* Fault: the last projection is given the work of the one before it.      *)
TraceOperatorsUpTwice ==
  <<Npu(2), Ifc(WeightSplit.qkv), Dram(50), Npu(43), Npu(5), Dram(50), Npu(43),
    Ifc(WeightSplit.out), Npu(1), Ifc(WeightSplit.gate_up), Npu(4),
    Ifc(WeightSplit.gate_up), Npu(2)>>

(* The 13 calls of write_operator_trace_event.                             *)
TraceOperators ==
  <<Npu(2), Ifc(WeightSplit.qkv), Dram(50), Npu(43), Npu(5), Dram(50), Npu(43),
    Ifc(WeightSplit.out), Npu(1), Ifc(WeightSplit.gate_up), Npu(4),
    Ifc(WeightSplit.down), Npu(2)>>

TotalWork(engine) ==
  Unit * model.layers * (CASE engine = "IFC" -> model.weight
                           [] engine = "DRAM" -> model.cache
                           [] engine = "NPU" -> model.ops)

(* The three stage times that ifc_simulate_one_with_system hands over.     *)
StageTime(engine) == TotalWork(engine) * rate[engine]

Bursts(engine, work) == IF engine = "DRAM" THEN CeilDiv(work, 64 * Unit) ELSE 0

(* trace_scale_to_total: the time per unit of work.                        *)
Scale(engine, time) == IF TotalWork(engine) = 0 THEN 0 ELSE time \div TotalWork(engine)

-----------------------------------------------------------------------------

EmptyStats ==
  [count |-> [e \in Engines |-> 0], ms |-> [e \in Engines |-> 0],
   work |-> [e \in Engines |-> 0], total_ms |-> 0, dram_bursts |-> 0]

TraceInit ==
  /\ model \in Models /\ rate \in Rates
  /\ pass = "stats"
  /\ layer = 0 /\ op = 1
  /\ dependency_ready_ms = 0
  /\ engine_ready_ms = [e \in Engines |-> 0]
  /\ stats = EmptyStats
  /\ trace = << >>

Start(engine) == Max2(dependency_ready_ms, engine_ready_ms[engine])

(* The schedule of one operator and the move to the next.                  *)
Schedule(engine, end) ==
  /\ engine_ready_ms' = [engine_ready_ms EXCEPT ![engine] = end]
  /\ dependency_ready_ms' = end
  /\ op' = IF op = 13 THEN 1 ELSE op + 1
  /\ layer' = IF op = 13 THEN layer + 1 ELSE layer

(* trace_add_stage.                                                        *)
AddStage ==
  /\ pass = "stats" /\ layer < model.layers
  /\ LET o       == StatsOperators[op]
         service == o.work * Scale(o.engine, StageTime(o.engine))
         end     == Start(o.engine) + service
     IN  /\ Schedule(o.engine, end)
         /\ stats' = [stats EXCEPT !.count[o.engine] = @ + 1, !.ms[o.engine] = @ + service,
                                   !.work[o.engine] = @ + o.work, !.total_ms = end,
                                   !.dram_bursts = @ + Bursts(o.engine, o.work)]
  /\ UNCHANGED <<model, rate, pass, trace>>

(* The statistics are replaced by the totals; the trace is started.        *)
EndStats ==
  /\ pass = "stats" /\ layer = model.layers
  /\ stats' = [stats EXCEPT !.ms = [e \in Engines |-> StageTime(e)],
                            !.work = [e \in Engines |-> TotalWork(e)],
                            !.total_ms = StageTime("IFC") + StageTime("DRAM") + StageTime("NPU"),
                            !.dram_bursts = Bursts("DRAM", TotalWork("DRAM"))]
  /\ pass' = "trace"
  /\ layer' = 0 /\ op' = 1
  /\ dependency_ready_ms' = 0
  /\ engine_ready_ms' = [e \in Engines |-> 0]
  /\ UNCHANGED <<model, rate, trace>>

(* write_operator_trace_event.                                             *)
WriteEvent ==
  /\ pass = "trace" /\ layer < model.layers
  /\ LET o       == TraceOperators[op]
         service == o.work * Scale(o.engine, stats.ms[o.engine])
         start   == Start(o.engine)
     IN  /\ Schedule(o.engine, start + service)
         /\ trace' = Append(trace, [engine |-> o.engine, engine_ready |-> engine_ready_ms[o.engine],
                                    start |-> start, end |-> start + service, service |-> service,
                                    work |-> o.work, bursts |-> Bursts(o.engine, o.work)])
  /\ UNCHANGED <<model, rate, pass, stats>>

WriteError ==
  /\ TraceMayFail
  /\ pass = "trace" /\ layer < model.layers
  /\ pass' = "failed"
  /\ UNCHANGED <<model, rate, layer, op, dependency_ready_ms, engine_ready_ms, stats, trace>>

EndTrace ==
  /\ pass = "trace" /\ layer = model.layers
  /\ pass' = "ok"
  /\ UNCHANGED <<model, rate, layer, op, dependency_ready_ms, engine_ready_ms, stats, trace>>

TraceTerminated == pass \in {"ok", "failed"} /\ UNCHANGED tvars

TraceNext == AddStage \/ EndStats \/ WriteEvent \/ WriteError \/ EndTrace \/ TraceTerminated

TraceSpec == TraceInit /\ [][TraceNext]_tvars

-----------------------------------------------------------------------------
(* Properties.                                                             *)

(* The rows of the trace for an engine.                                    *)
RowsOf(engine) == {n \in DOMAIN trace : trace[n].engine = engine}

(* A column of the trace for an engine, 0 in the rows of others.           *)
Column(engine, field) ==
  [n \in DOMAIN trace |-> IF trace[n].engine = engine THEN trace[n][field] ELSE 0]

(* The totals that replace the collected statistics are what was           *)
(* collected: the shares of the 13 operators use up the work of a layer.   *)
TotalsCollected ==
  [][EndStats => /\ stats'.ms = stats.ms
                 /\ stats'.work = stats.work
                 /\ stats'.total_ms = stats.total_ms]_tvars

(* The second schedule agrees with the statistics of the first: operators, *)
(* time and work of every engine, and the end of the last operator.  The   *)
(* summary's DRAM bursts, rounded up once for all operators, are never     *)
(* more than the trace's, rounded up for each, and are the same when every *)
(* operator reads whole bursts.                                            *)
TraceAddsUp ==
  pass = "ok" =>
    /\ \A e \in Engines :
         /\ Cardinality(RowsOf(e)) = stats.count[e]
         /\ Total(Column(e, "service")) = stats.ms[e]
         /\ Total(Column(e, "work")) = stats.work[e]
         /\ e # "DRAM" => Total(Column(e, "bursts")) = 0
    /\ trace[Len(trace)].end = stats.total_ms
    /\ stats.dram_bursts <= Total(Column("DRAM", "bursts"))
    /\ (\A n \in RowsOf("DRAM") : trace[n].bursts * 64 * Unit = trace[n].work)
         => stats.dram_bursts = Total(Column("DRAM", "bursts"))
=============================================================================
