----------------------------- MODULE Reproduction -----------------------------
(***************************************************************************)
(* What main.c does with a loaded configuration: a row is simulated for    *)
(* every model and platform (ifc_simulate_config), and analysis.c          *)
(* summarises the rows again, per platform, per model and for every        *)
(* context length of a sweep, and checks the reproduction.                 *)
(*                                                                         *)
(* The C++ checkers read the same platform file by a parser of their own.  *)
(*                                                                         *)
(* The latency formulas are abstracted to a weight time of a model on a    *)
(* platform and an attention time in proportion to the context.  Doubles   *)
(* are whole numbers, divisions round down; a mean over the rows is kept   *)
(* as the sum.                                                             *)
(***************************************************************************)
EXTENDS ConfigLoad, Totals, FiniteSetsExt

CONSTANTS
  Name,                   \* of a row's value in the table of models or platforms
  WeightTime,             \* per model and platform
  CacheTime, AttentionOps, \* per model, for one token of context
  TokensPerSecond,        \* per reference row: the reference of every platform
  SpeedScale,             \* tokens per second of a token that takes one unit of time
  CONTEXT_SWEEP_MAX,
  FitWindow               \* the best contexts that are accepted (900 to 1100)

CONTEXT_SWEEP_MIN == 1
IFC_ROW_COUNT == IFC_MODEL_COUNT * IFC_PLATFORM_COUNT

(* What the rows of a table may hold.                                      *)
Values(t) ==
  {Defaults[t][r] : r \in 1..Rows[t]}
    \cup UNION {{f[n].value : n \in DataLines(f)} : f \in TableFiles[t]}

(* Times, speeds and what the peak derives from are positive, so that      *)
(* every quotient is a number.                                             *)
ASSUME ReproductionAssumption ==
  /\ CONTEXT_SWEEP_MAX \in Nat \ {0} /\ SpeedScale \in Nat \ {0}
  /\ FitWindow \subseteq 1..CONTEXT_SWEEP_MAX
  /\ \A m \in Values("models") :
       /\ CacheTime[m] \in Nat /\ AttentionOps[m] \in Nat
       /\ \A p \in Values("platforms") : WeightTime[m][p] \in Nat \ {0}
  /\ \A x \in Values("reference") : \A p \in 1..IFC_PLATFORM_COUNT :
       TokensPerSecond[x][p] \in Nat \ {0}
  /\ DefaultSystem.npu_frequency > 0 /\ DefaultSystem.npu_ops_per_cycle > 0
  /\ DefaultSystem.context_tokens >= 0
  /\ \A f \in SystemFiles : \A n \in DataLines(f) :
       f[n].columns >= 2 =>
         /\ f[n].key \in {"npu_frequency", "npu_ops_per_cycle"} => f[n].value > 0
         /\ f[n].key = "context_tokens" => f[n].value >= 0

VARIABLES
  rows,               \* IfcSimulationRow rows[]
  summary,            \* IfcSummary
  context,            \* the next context of the sweep
  fit                 \* IfcContextFitSummary and the least errors so far

rvars == <<rows, summary, context, fit>>

(* The doubles that no error reaches, -1.0 and 1e30.                       *)
Huge == 1000000000

NoSummary == [abs_error_sum |-> 0, error_sum |-> 0, max_abs_error |-> -1, worst |-> 0]

NoFit ==
  [best_mae |-> Huge, best_rmse |-> Huge, best_max |-> Huge,
   best_mae_context |-> CONTEXT_SWEEP_MIN, best_rmse_context |-> CONTEXT_SWEEP_MIN,
   best_max_context |-> CONTEXT_SWEEP_MIN, guardrail_min |-> 0, guardrail_max |-> 0]

ReproductionInit ==
  /\ Init
  /\ rows = << >> /\ summary = NoSummary
  /\ context = CONTEXT_SWEEP_MIN /\ fit = NoFit

Load ==
  /\ Open \/ SkipBlank \/ ReadRow \/ EndTable \/ ReadKey \/ EndSystem \/ Simulate
  /\ UNCHANGED rvars

-----------------------------------------------------------------------------
(* The rows.                                                               *)

Abs(x) == IF x < 0 THEN -x ELSE x

(* ifc_simulate_one_with_system.                                           *)
SimulateOne(m, p) ==
  LET model == tables.models[m]
  IN  [model |-> Name[model], platform |-> Name[tables.platforms[p]],
       context_tokens |-> system.context_tokens,
       reference |-> TokensPerSecond[tables.reference[m]][p],
       weight |-> WeightTime[model][tables.platforms[p]],
       attention |-> system.context_tokens * CacheTime[model]
                       + (system.context_tokens * AttentionOps[model]) \div system.npu_peak]

RelativeError(r, attention) ==
  (((SpeedScale \div (r.weight + attention)) - r.reference) * 100) \div r.reference

(* Fault: of rows with equal errors the last is the worst case.            *)
IsWorseOrEqual(error) == error >= summary.max_abs_error

IsWorse(error) == error > summary.max_abs_error

(* One turn of the two nested loops of ifc_simulate_config.                *)
SimulateRow ==
  /\ pc = "simulate" /\ Len(rows) < IFC_ROW_COUNT
  /\ LET n     == Len(rows)
         r     == SimulateOne((n \div IFC_PLATFORM_COUNT) + 1, (n % IFC_PLATFORM_COUNT) + 1)
         error == RelativeError(r, r.attention)
         worse == IsWorse(Abs(error))
     IN  /\ rows' = Append(rows, r)
         /\ summary' = [abs_error_sum |-> summary.abs_error_sum + Abs(error),
                        error_sum |-> summary.error_sum + error,
                        max_abs_error |-> IF worse THEN Abs(error) ELSE summary.max_abs_error,
                        worst |-> IF worse THEN n + 1 ELSE summary.worst]
  /\ UNCHANGED <<vars, context, fit>>

BeginSweep ==
  /\ pc = "simulate" /\ Len(rows) = IFC_ROW_COUNT
  /\ pc' = "sweep"
  /\ UNCHANGED <<tables, system, files, line, row, rvars>>

-----------------------------------------------------------------------------
(* The context sweep of analysis.c.                                        *)

(* A row's attention time scaled to another context.  A run without a      *)
(* context is not scaled.                                                  *)
ErrorAt(c, r) ==
  RelativeError(r, IF r.context_tokens > 0 THEN (r.attention * c) \div r.context_tokens
                                           ELSE r.attention)

AbsErrorAt(c, n) == Abs(ErrorAt(c, rows[n]))

(* context_summary_at.                                                     *)
SummaryAt(c) ==
  LET most == Max({AbsErrorAt(c, n) : n \in DOMAIN rows})
  IN  [abs_error_sum |-> Total([n \in DOMAIN rows |-> AbsErrorAt(c, n)]),
       error_sum |-> Total([n \in DOMAIN rows |-> ErrorAt(c, rows[n])]),
       max_abs_error |-> most,
       worst |-> Min({n \in DOMAIN rows : AbsErrorAt(c, n) = most})]

(* context_rmse_at, squared.                                               *)
SquaresAt(c) == Total([n \in DOMAIN rows |-> AbsErrorAt(c, n) * AbsErrorAt(c, n)])

Guardrail(s) == s.abs_error_sum <= 9 * IFC_ROW_COUNT /\ s.max_abs_error <= 15

(* Fault: a later context with the same error replaces the earlier.        *)
BetterOrEqual(error, best) == error <= best

Better(error, best) == error < best

(* One turn of the loop of compute_context_fit_summary.                    *)
SweepContext ==
  /\ pc = "sweep" /\ context <= CONTEXT_SWEEP_MAX
  /\ LET s       == SummaryAt(context)
         squares == SquaresAt(context)
         pass    == Guardrail(s)
         First(yes, error, best) == IF yes THEN error ELSE best
         mae  == Better(s.abs_error_sum, fit.best_mae)
         rmse == Better(squares, fit.best_rmse)
         most == Better(s.max_abs_error, fit.best_max)
     IN  fit' = [best_mae          |-> First(mae, s.abs_error_sum, fit.best_mae),
                 best_mae_context  |-> First(mae, context, fit.best_mae_context),
                 best_rmse         |-> First(rmse, squares, fit.best_rmse),
                 best_rmse_context |-> First(rmse, context, fit.best_rmse_context),
                 best_max          |-> First(most, s.max_abs_error, fit.best_max),
                 best_max_context  |-> First(most, context, fit.best_max_context),
                 guardrail_min     |-> First(pass /\ fit.guardrail_min = 0, context,
                                             fit.guardrail_min),
                 guardrail_max     |-> First(pass, context, fit.guardrail_max)]
  /\ context' = context + 1
  /\ UNCHANGED <<vars, rows, summary>>

EndSweep ==
  /\ pc = "sweep" /\ context > CONTEXT_SWEEP_MAX
  /\ pc' = "done"
  /\ UNCHANGED <<tables, system, files, line, row, rvars>>

(* The checks of write_reproduction_checks that pass.                      *)
Checks ==
  [figure9_mean |-> summary.abs_error_sum <= 9 * IFC_ROW_COUNT,
   figure9_max  |-> summary.max_abs_error <= 15,
   window_min   |-> fit.guardrail_min > 0 /\ fit.guardrail_min <= system.context_tokens,
   window_max   |-> fit.guardrail_max >= system.context_tokens,
   best_max     |-> fit.best_max_context \in FitWindow,
   best_rmse    |-> fit.best_rmse_context \in FitWindow]

(* write_platform_summary and write_model_summary: the rows of a name.     *)
RowError(n) == Abs(RelativeError(rows[n], rows[n].attention))

PartOf(R) ==
  [count |-> Total([n \in DOMAIN rows |-> IF n \in R THEN 1 ELSE 0]),
   abs_error_sum |-> Total([n \in DOMAIN rows |-> IF n \in R THEN RowError(n) ELSE 0]),
   max_abs_error |-> Max({0} \cup {RowError(n) : n \in R})]

PlatformSummary(p) ==
  PartOf({n \in DOMAIN rows : rows[n].platform = Name[tables.platforms[p]]})

ModelSummary(m) == PartOf({n \in DOMAIN rows : rows[n].model = Name[tables.models[m]]})

ReproductionTerminated == pc \in {"done", "failed"} /\ UNCHANGED <<vars, rvars>>

ReproductionNext ==
  Load \/ SimulateRow \/ BeginSweep \/ SweepContext \/ EndSweep \/ ReproductionTerminated

ReproductionSpec == ReproductionInit /\ [][ReproductionNext]_<<vars, rvars>>

-----------------------------------------------------------------------------
(* parse_platform_csv of ifc_hw_cycle_model.cpp, which all three C++       *)
(* programs use: the line after the header, blank or not, and an empty     *)
(* field is no token.  The fields it takes for the first 14 columns, or    *)
(* none if it refuses the line.                                            *)

(* The columns that are tokens, and the column of token number k.          *)
Tokens(l) == IF l = Blank THEN {} ELSE (1..l.columns) \ l.empty

Token(l, k) == CHOOSE n \in Tokens(l) : Cardinality({m \in Tokens(l) : m <= n}) = k

First14(l) == [k \in 1..14 |-> Token(l, k)]

(* Fault: fourteen tokens are enough, as no later one is used.             *)
ParsePlatformUsed(f) ==
  IF Len(f) < 2 \/ Cardinality(Tokens(f[2])) < 14 THEN << >> ELSE First14(f[2])

ParsePlatform(f) ==
  IF Len(f) < 2 \/ Cardinality(Tokens(f[2])) < 19 THEN << >> ELSE First14(f[2])

-----------------------------------------------------------------------------
(* Properties.                                                             *)

Sweep == CONTEXT_SWEEP_MIN..CONTEXT_SWEEP_MAX

Parts(part) ==
  /\ \A k \in DOMAIN part : part[k].count >= IFC_ROW_COUNT \div Len(part)
  /\ Total([k \in DOMAIN part |-> part[k].count]) = IFC_ROW_COUNT
  /\ Total([k \in DOMAIN part |-> part[k].abs_error_sum]) = summary.abs_error_sum
  /\ Max({part[k].max_abs_error : k \in DOMAIN part}) = summary.max_abs_error

DifferentNames(table) ==
  \A r, s \in DOMAIN table : Name[table[r]] = Name[table[s]] => r = s

(* The errors are summarised four times by code written four times.  The   *)
(* sweep at the run's own context says what the run said, mean, maximum    *)
(* and worst case; a run without a context is repeated at every context;   *)
(* a run that passes both checks on its errors passes both on the window;  *)
(* and the summaries of the platforms, and of the models, add up to the    *)
(* run's when names are not used twice.                                    *)
SummariesAgree ==
  pc = "done" =>
    /\ \A c \in Sweep :
         (c = system.context_tokens \/ system.context_tokens <= 0) => SummaryAt(c) = summary
    /\ system.context_tokens \in Sweep =>
         (Checks.figure9_mean /\ Checks.figure9_max => Checks.window_min /\ Checks.window_max)
    /\ DifferentNames(tables.platforms) =>
         Parts([p \in 1..IFC_PLATFORM_COUNT |-> PlatformSummary(p)])
    /\ DifferentNames(tables.models) =>
         Parts([m \in 1..IFC_MODEL_COUNT |-> ModelSummary(m)])

(* The first context with the least error.                                 *)
IsBest(c, error) == \A d \in Sweep : error[c] <= error[d] /\ (d < c => error[c] < error[d])

(* The sweep's results, kept in one pass, are the first context of least   *)
(* mean, square and maximal error, and the least and the greatest context  *)
(* within the guardrails, 0 and 0 if there is none; contexts between the   *)
(* two may be outside.                                                     *)
FitIsBest ==
  pc = "done" =>
    LET passing == {c \in Sweep : Guardrail(SummaryAt(c))}
    IN  /\ IsBest(fit.best_mae_context, [c \in Sweep |-> SummaryAt(c).abs_error_sum])
        /\ IsBest(fit.best_rmse_context, [c \in Sweep |-> SquaresAt(c)])
        /\ IsBest(fit.best_max_context, [c \in Sweep |-> SummaryAt(c).max_abs_error])
        /\ fit.guardrail_min = Min(passing \cup IF passing = {} THEN {0} ELSE {})
        /\ fit.guardrail_max = Max(passing \cup {0})

(* A platform file that the simulator loads and the checkers accept is     *)
(* read alike, the checkers' line being the first row; except that a row   *)
(* with a surplus column, which the simulator drops, can make up for an    *)
(* empty one among the first 14, which shifts what the checkers read.      *)
CheckerAgrees ==
  (pc = "done" /\ FileOf("platforms") # NotGiven) =>
    LET read  == ParsePlatform(FileOf("platforms"))
        first == FileOf("platforms")[Min(DataLines(FileOf("platforms")))]
    IN  read # << >> =>
          /\ FileOf("platforms")[2] = first
          /\ read = [n \in 1..14 |-> n]
               \/ (first.columns > Columns.platforms /\ first.empty \cap 1..14 # {})
=============================================================================
